---- MODULE Spec2Model ----
(***************************************************************************)
(* Token lifecycle engine of orthanc-dicomweb-oauth: TokenManager          *)
(* (src/token_manager.py) with its retry paths and optional circuit        *)
(* breaker, and the CircuitBreaker class (src/resilience/circuit_breaker)  *)
(* used directly by concurrent callers.                                    *)
(*                                                                         *)
(* Time is the wall clock in whole seconds.  Tokens are numbered by the    *)
(* provider call that issued them (token k is the access token returned by *)
(* the k-th provider.acquire_token call).                                  *)
(***************************************************************************)
EXTENDS Integers, FiniteSets, Sequences, TLC

\* ---------------------------------------------------------------- bounds
NumThreads == 2
MaxTime == 3
MaxCalls == 3
MaxCbCalls == 4
MaxLockedCalls == 3
MaxAttempts == 3
MaxSecretLen == 2
MaxVaults == 2
MaxEndpointLen == 3
MaxRequests == 2
MaxMmCalls == 3
MaxRlCalls == 4
MaxCtxCalls == 2

Threads == 1..NumThreads

\* ------------------------------------------------------ program constants
MAX_TOKEN_ACQUISITION_RETRIES == 3
INITIAL_RETRY_DELAY_SECONDS == 1

\* Python's None for an Optional[float] / Optional[datetime] / Optional[bytes].
NoTime == -1
NoThread == 0
NoToken == 0

\* ------------------------------------------------------------- variables
VARIABLES
    now,               \* time.time() / datetime.now(timezone.utc)
    \* --- TokenManager ---
    config,            \* the manager's configuration, fixed at construction
    encCachedToken,    \* self._encrypted_cached_token
    tokenExpiry,       \* self._token_expiry
    lock,              \* self._lock: the thread holding it, or NoThread
    pc,                \* where each thread is inside get_token
    attempt,           \* loop variable `attempt` of the running retry loop
    retryDelay,        \* local `retry_delay` of _acquire_with_legacy_retry
    oauthTok,          \* local `oauth_token` returned by the provider
    lastReturn,        \* what the most recent get_token call gave back
    tmCb,              \* self._circuit_breaker (its fields)
    acquireCalls,      \* number of provider.acquire_token calls so far
    calls,             \* number of get_token calls so far
    rejectedTokens,    \* history: tokens for which validate_token returned False
    cacheBefore,       \* history: the cache when the current lock holder took the lock
    waitedFor,         \* history: the token now cached, for a thread that was waiting
                       \*   for the lock when the acquisition of that token succeeded
    servedFromWait,    \* history: the thread's last call waited so and was a cache hit
    tmConsec,          \* history: get_token calls in a row whose acquisition failed,
                       \*   counted while the manager has a breaker
    expirySrc,         \* history: the oauth_token whose expires_in self._token_expiry
                       \*   was computed from
    lastExc,           \* history: the exception the attempt that failed in the step
                       \*   just taken raised, "none" after any other step of a caller
    \* --- CircuitBreaker used directly ---
    cbCfg,             \* failure_threshold, timeout, exception_filter
    cb,                \* the breaker's fields
    cbPc,              \* where each thread is inside CircuitBreaker.call
    cbLast,            \* the thread and outcome of the most recent return of call
    cbLock,            \* the breaker's self._lock: the thread holding it, or NoThread
    cbExc,             \* the exception a thread's wrapped function raised, while call handles it
    cbSeen,            \* what the `state` and `failure_count` properties last returned
    probe,             \* history: the thread's running call moved OPEN -> HALF_OPEN
    consec,            \* history: qualifying failures since the last success or reset
    \* --- RetryConfig.execute called directly ---
    rcCfg,             \* max_attempts, strategy, should_retry, on_retry
    rcPc,              \* where the caller is inside execute
    rcAttempt,         \* loop variable `attempt`
    rcLastExc,         \* local `last_exception`
    rcOut,             \* what execute returned or raised
    rcLog,             \* history: invocations, on_retry calls and sleeps, in order
    \* --- handle_rest_api_servers (GET /dicomweb-oauth/servers) ---
    rdPc,              \* where the request handler is
    rdEnc,             \* what _is_token_valid read from _encrypted_cached_token
    serverInfo,        \* the server_info entry the handler built, with the token and
                       \*   the origin of the expiry its validity check read
    \* --- SecretsManager instances used directly ---
    smVaults,          \* number of SecretsManager instances constructed
    smSecret,          \* the string given to encrypt_secret
    smCipher,          \* what encrypt_secret returned
    smOut,             \* what the most recent decrypt_secret returned or raised
    \* --- OAuthProviderFactory and TokenManager construction ---
    pfCfg,             \* the server's configuration dict
    pfPc,              \* where initialize_plugin is with this server
    pfOut,             \* how TokenManager(server_name, server_config) ended
    mgr,               \* the constructed manager and its provider
    detected,          \* what a direct call of auto_detect returned
    requestsSent,      \* number of token requests the provider has posted
    \* --- One TokenManager per destination ---
    mgrs,              \* each destination's manager: cache, expiry, lock, breaker
    mmPc,              \* the manager a thread's get_token call is on, and where it is
    mmIssued,          \* number of tokens the providers have issued
    mmCalls,           \* number of get_token calls so far
    \* --- RateLimiter ---
    rlCfg,             \* max_requests, window_seconds
    rlRequests,        \* self._requests: per key, the recorded timestamps
    rlLast,            \* the key and outcome of the most recent check_rate_limit
    rlAccepted,        \* history: per key, the timestamps of all accepted requests
    rlCalls,           \* number of check_rate_limit calls so far
    \* --- PluginContext ---
    ctxClass,          \* the class attributes _instance, _initialized and _lock
    ctxObjects,        \* history: the PluginContext objects created, in order
    ctxThr,            \* per thread: where it is inside get_instance, its local
                       \*   `instance`, what the call returned and by which path
    \* --- handle_rest_api_stow (POST /dicomweb-oauth/servers/{name}/stow) ---
    stowReq,           \* the request and what its collaborators will do
    stow,              \* where the handler is, its locals, how
                       \*   _process_stow_request ended
    answers            \* the output.AnswerBuffer calls, in order

tmVars == <<config, encCachedToken, tokenExpiry, lock, pc, attempt, retryDelay,
            oauthTok, lastReturn, tmCb, acquireCalls, calls, rejectedTokens,
            cacheBefore, waitedFor, servedFromWait, tmConsec, expirySrc, lastExc>>
cbVars == <<cbCfg, cb, cbPc, cbLast, cbLock, cbExc, cbSeen, probe, consec>>
rcVars == <<rcCfg, rcPc, rcAttempt, rcLastExc, rcOut, rcLog>>
stVars == <<rdPc, rdEnc, serverInfo>>
smVars == <<smVaults, smSecret, smCipher, smOut>>
pfVars == <<pfCfg, pfPc, pfOut, mgr, detected, requestsSent>>
mmVars == <<mgrs, mmPc, mmIssued, mmCalls>>
rlVars == <<rlCfg, rlRequests, rlLast, rlAccepted, rlCalls>>
ctxVars == <<ctxClass, ctxObjects, ctxThr>>
swVars == <<stowReq, stow, answers>>
extVars == <<stVars, smVars, pfVars, mmVars, rlVars, ctxVars, swVars>>
vars == <<now, tmVars, cbVars, rcVars, extVars>>

\* What the steps of one component leave alone.
nonTmVars == <<cbVars, rcVars, extVars>>
nonCbVars == <<tmVars, rcVars, extVars>>
nonRcVars == <<tmVars, cbVars, extVars>>
nonStVars == <<cbVars, rcVars, smVars, pfVars, mmVars, rlVars, ctxVars, swVars>>
nonSmVars == <<tmVars, cbVars, rcVars, stVars, pfVars, mmVars, rlVars, ctxVars, swVars>>
nonPfVars == <<tmVars, cbVars, rcVars, stVars, smVars, mmVars, rlVars, ctxVars, swVars>>
nonMmVars == <<tmVars, cbVars, rcVars, stVars, smVars, pfVars, rlVars, ctxVars, swVars>>
nonRlVars == <<tmVars, cbVars, rcVars, stVars, smVars, pfVars, mmVars, ctxVars, swVars>>
nonCtxVars == <<tmVars, cbVars, rcVars, stVars, smVars, pfVars, mmVars, rlVars, swVars>>
nonSwVars == <<tmVars, cbVars, rcVars, stVars, smVars, pfVars, mmVars, rlVars, ctxVars>>

\* =========================================================================
\* SecretsManager (src/secrets_manager.py)
\* =========================================================================
\* Strings are sequences of Unicode code points, bytes are sequences of 0..255.
\* The key generated by the manager's SecretsManager instance.
TmVaultKey == 1

\* Fernet.generate_key() of the i-th SecretsManager constructed: a fresh key.
VaultKey(i) == i

\* str.encode("utf-8") of one code point below 0x10000
Utf8Bytes(cp) ==
    IF cp < 128 THEN <<cp>>
    ELSE IF cp < 2048 THEN <<192 + (cp \div 64), 128 + (cp % 64)>>
    ELSE <<224 + (cp \div 4096), 128 + ((cp \div 64) % 64), 128 + (cp % 64)>>

\* secret.encode("utf-8")
RECURSIVE Utf8Encode(_)
Utf8Encode(str) ==
    IF str = <<>> THEN <<>> ELSE Utf8Bytes(Head(str)) \o Utf8Encode(Tail(str))

\* decrypted_bytes.decode("utf-8")
RECURSIVE Utf8Decode(_)
Utf8Decode(bytes) ==
    IF bytes = <<>> THEN <<>>
    ELSE IF bytes[1] < 128
         THEN <<bytes[1]>> \o Utf8Decode(SubSeq(bytes, 2, Len(bytes)))
    ELSE IF bytes[1] < 224
         THEN <<(bytes[1] - 192) * 64 + (bytes[2] - 128)>>
                  \o Utf8Decode(SubSeq(bytes, 3, Len(bytes)))
    ELSE <<(bytes[1] - 224) * 4096 + (bytes[2] - 128) * 64 + (bytes[3] - 128)>>
             \o Utf8Decode(SubSeq(bytes, 4, Len(bytes)))

\* encrypt_secret: the Fernet token authenticates the encoded secret under
\* the key of the instance.
EncryptSecret(key, secret) == [key |-> key, pt |-> Utf8Encode(secret)]

\* Mutant of DecryptSecret: the key of the token is not verified.
DecryptSecretAnyKey(key, encrypted) ==
    [raised |-> "none", value |-> Utf8Decode(encrypted.pt)]

\* decrypt_secret: gives the secret back under the same key, and raises
\* cryptography.fernet.InvalidToken under any other.
DecryptSecret(key, encrypted) ==
    IF encrypted.key = key
    THEN [raised |-> "none", value |-> Utf8Decode(encrypted.pt)]
    ELSE [raised |-> "InvalidToken", value |-> <<>>]

\* self._encrypted_cached_token = None
NoCipher == [key |-> 0, pt |-> <<>>]

\* The access token string of the provider's tok-th token, and back.
AccessTokenText(tok) == <<tok>>
TokenOf(text) == text[1]

\* _get_cached_token
GetCachedToken(enc) ==
    IF enc = NoCipher THEN NoToken ELSE TokenOf(DecryptSecret(TmVaultKey, enc).value)

\* =========================================================================
\* Retry strategies (src/resilience/retry_strategy.py)
\* =========================================================================
RECURSIVE Pow(_, _)
Pow(b, e) == IF e = 0 THEN 1 ELSE b * Pow(b, e - 1)

Min(a, b) == IF a < b THEN a ELSE b

\* RetryStrategy.get_delay of the three strategies.
GetDelay(s, att) ==
    CASE s.type = "fixed" -> s.initial_delay
      [] s.type = "linear" -> s.initial_delay + att * s.increment
      [] OTHER ->
            LET delay == s.initial_delay * Pow(s.multiplier, att)
            IN  IF s.max_delay # NoTime THEN Min(delay, s.max_delay) ELSE delay

\* =========================================================================
\* CircuitBreaker (src/resilience/circuit_breaker.py)
\* =========================================================================
CbNew == [state |-> "CLOSED", failure_count |-> 0, last_failure_time |-> NoTime,
          total_calls |-> 0, success_count |-> 0, metrics_failure_count |-> 0,
          rejected_count |-> 0]

\* Mutant of ShouldAttemptReset: the timeout is not compared.
ShouldAttemptResetNoTimeout(b, timeout, t) ==
    IF b.last_failure_time = NoTime THEN TRUE
    ELSE t - b.last_failure_time >= 0

\* _should_attempt_reset
ShouldAttemptReset(b, timeout, t) ==
    IF b.last_failure_time = NoTime THEN TRUE
    ELSE t - b.last_failure_time >= timeout

\* call, the part before the wrapped function: does it raise CircuitBreakerError?
CallRejected(b, timeout, t) ==
    b.state = "OPEN" /\ ~ShouldAttemptReset(b, timeout, t)

\* call, the part before the wrapped function: the breaker's fields after it.
CallEnter(b, timeout, t) ==
    LET b1 == [b EXCEPT !.total_calls = @ + 1]
    IN  IF b1.state = "OPEN"
        THEN IF ShouldAttemptReset(b1, timeout, t)
             THEN [b1 EXCEPT !.state = "HALF_OPEN"]
             ELSE [b1 EXCEPT !.rejected_count = @ + 1]
        ELSE b1

\* Mutant of OnSuccess: the failure counter is not zeroed.
OnSuccessKeepCount(b) ==
    LET b1 == [b EXCEPT !.success_count = @ + 1]
    IN  IF b1.state = "HALF_OPEN" THEN [b1 EXCEPT !.state = "CLOSED"] ELSE b1

\* _on_success
OnSuccess(b) ==
    LET b1 == [b EXCEPT !.success_count = @ + 1, !.failure_count = 0]
    IN  IF b1.state = "HALF_OPEN" THEN [b1 EXCEPT !.state = "CLOSED"] ELSE b1

\* Mutant of OnFailure: `>` where the code has `>=`.
OnFailureStrict(b, threshold, t) ==
    LET b1 == [b EXCEPT !.metrics_failure_count = @ + 1,
                        !.failure_count = @ + 1,
                        !.last_failure_time = t]
    IN  IF b1.failure_count > threshold /\ b1.state # "OPEN"
        THEN [b1 EXCEPT !.state = "OPEN"]
        ELSE b1

\* _on_failure
OnFailure(b, threshold, t) ==
    LET b1 == [b EXCEPT !.metrics_failure_count = @ + 1,
                        !.failure_count = @ + 1,
                        !.last_failure_time = t]
    IN  IF b1.failure_count >= threshold /\ b1.state # "OPEN"
        THEN [b1 EXCEPT !.state = "OPEN"]
        ELSE b1

\* reset
ResetBreaker(b) ==
    [b EXCEPT !.state = "CLOSED", !.failure_count = 0, !.last_failure_time = NoTime]


\* =========================================================================
\* TokenManager (src/token_manager.py)
\* =========================================================================
\* Exceptions, by class.  "Timeout" and "ConnectionError" are the requests
\* exceptions, "Exception" is any other exception.
ProviderErrors ==
    {"Timeout", "ConnectionError", "NetworkError", "TokenAcquisitionError", "Exception"}

\* Values of TokenRefreshBufferSeconds and of the provider's expires_in.
Buffers == {0, 1}
Lifetimes == {1, 2}

\* ResilienceConfig absent: _create_retry_config returns None.
NoRetryConfig ==
    [enabled |-> FALSE, max_attempts |-> 0,
     strategy |-> [type |-> "fixed", initial_delay |-> 0, increment |-> 0,
                   multiplier |-> 0, max_delay |-> NoTime]]

\* _create_retry_config with RetryMaxAttempts = n and the defaults of the
\* other keys: exponential, RetryInitialDelay 1, RetryMultiplier 2, no cap.
DefaultRetryConfig(n) ==
    [enabled |-> TRUE, max_attempts |-> n,
     strategy |-> [type |-> "exponential", initial_delay |-> 1, increment |-> 0,
                   multiplier |-> 2, max_delay |-> NoTime]]

RetryConfigs == {NoRetryConfig, DefaultRetryConfig(2)}

\* _create_circuit_breaker: disabled, or enabled with a threshold and a timeout.
BreakerConfigs ==
    {[cb_enabled |-> FALSE, threshold |-> 1, timeout |-> 2]}
    \cup {[cb_enabled |-> TRUE, threshold |-> n, timeout |-> 2] : n \in {1, 2}}

\* The configurations a manager is constructed with.
Configs ==
    {[buffer |-> b, retry |-> r, cb_enabled |-> c.cb_enabled,
      threshold |-> c.threshold, timeout |-> c.timeout] :
        b \in Buffers, r \in RetryConfigs, c \in BreakerConfigs}

\* What get_token gives back: a token, by the cache-hit path or by the path
\* that acquired it, or an exception.
NoResult == [kind |-> "none", token |-> NoToken, path |-> "none", err |-> "none"]
TokenResult(tok, path) == [kind |-> "token", token |-> tok, path |-> path, err |-> "none"]
ErrorResult(e) == [kind |-> "error", token |-> NoToken, path |-> "none", err |-> e]

NoOAuthToken == [access_token |-> NoToken, expires_in |-> 0]

\* Mutant of LockAvailable: get_token does not wait for the lock.
LockAlwaysAvailable(holder) == TRUE

\* `with self._lock`: the lock can be taken when nobody holds it.
LockAvailable(holder) == holder = NoThread

\* Mutant of IsTokenValid: `<=` where the code has `<`.
IsTokenValidInclusive(enc, expiry, t, buffer) ==
    IF enc = NoCipher \/ expiry = NoTime THEN FALSE
    ELSE t + buffer <= expiry

\* Mutant of IsTokenValid: the buffer is subtracted twice.
IsTokenValidDoubleBuffer(enc, expiry, t, buffer) ==
    IF enc = NoCipher \/ expiry = NoTime THEN FALSE
    ELSE t + 2 * buffer < expiry

\* Mutant of IsTokenValid: the cache is never used.
IsTokenValidNever(enc, expiry, t, buffer) == FALSE

\* _is_token_valid
IsTokenValid(enc, expiry, t, buffer) ==
    IF enc = NoCipher \/ expiry = NoTime THEN FALSE
    ELSE t + buffer < expiry

\* Mutant of ShouldRetry: every exception is retried.
ShouldRetryAlways(e) == TRUE

\* should_retry of the manager's RetryConfig
ShouldRetry(e) == e # "TokenAcquisitionError"

\* RetryConfig.execute, the except branch of attempt `att` (0-indexed):
\* whether it goes round the loop again, and what it raises otherwise.
ExecuteOnFailure(max_attempts, att, e) ==
    IF ~ShouldRetry(e) THEN [retry |-> FALSE, raise |-> e]
    ELSE IF att >= max_attempts - 1
         THEN [retry |-> FALSE, raise |-> "RetryExhaustedError"]
         ELSE [retry |-> TRUE, raise |-> e]

\* _acquire_with_retry_config, the except clauses around execute
RetryConfigRaise(e) ==
    IF e \in {"TokenAcquisitionError", "NetworkError"} THEN e
    ELSE "TokenAcquisitionError"

\* Mutant of LegacyOnFailure: an unexpected exception is re-raised as it is.
LegacyOnFailureRaw(att, e) ==
    IF e \in {"Timeout", "ConnectionError", "NetworkError"}
    THEN IF att < MAX_TOKEN_ACQUISITION_RETRIES - 1
         THEN [retry |-> TRUE, raise |-> e]
         ELSE [retry |-> FALSE, raise |-> "TokenAcquisitionError"]
    ELSE [retry |-> FALSE, raise |-> e]

\* Mutant of LegacyOnFailure: every exception is retried while attempts remain.
LegacyOnFailureRetryAll(att, e) ==
    IF att < MAX_TOKEN_ACQUISITION_RETRIES - 1
    THEN [retry |-> TRUE, raise |-> e]
    ELSE [retry |-> FALSE, raise |-> "TokenAcquisitionError"]

\* _acquire_with_legacy_retry, the except clauses of attempt `att`
LegacyOnFailure(att, e) ==
    IF e \in {"Timeout", "ConnectionError", "NetworkError"}
    THEN IF att < MAX_TOKEN_ACQUISITION_RETRIES - 1
         THEN [retry |-> TRUE, raise |-> e]
         ELSE [retry |-> FALSE, raise |-> "TokenAcquisitionError"]
    ELSE IF e \in {"TokenAcquisitionError", "NetworkError"}
         THEN [retry |-> FALSE, raise |-> e]
         ELSE [retry |-> FALSE, raise |-> "TokenAcquisitionError"]

\* acquire_operation: what a failed attempt leads to under the configured path
AttemptFailure(cfg, att, e) ==
    IF cfg.retry.enabled
    THEN LET r == ExecuteOnFailure(cfg.retry.max_attempts, att, e)
         IN  [retry |-> r.retry,
              raise |-> IF r.retry THEN e ELSE RetryConfigRaise(r.raise)]
    ELSE LegacyOnFailure(att, e)

\* Mutant of TmExceptionFilter: TokenAcquisitionError is not counted.
TmExceptionFilterNetworkOnly(e) ==
    e \in {"Timeout", "ConnectionError"}

\* exception_filter given to the manager's breaker
TmExceptionFilter(e) ==
    e \in {"Timeout", "ConnectionError", "TokenAcquisitionError"}

\* Mutant of BreakerAfterFailure: the failure is counted twice.
BreakerAfterFailureTwice(cfg, b, e, t) ==
    IF cfg.cb_enabled /\ TmExceptionFilter(e)
    THEN OnFailure(OnFailure(b, cfg.threshold, t), cfg.threshold, t)
    ELSE b

\* CircuitBreaker.call after acquire_operation raised e
BreakerAfterFailure(cfg, b, e, t) ==
    IF cfg.cb_enabled /\ TmExceptionFilter(e)
    THEN OnFailure(b, cfg.threshold, t)
    ELSE b

\* CircuitBreaker.call after acquire_operation returned
BreakerAfterSuccess(cfg, b) ==
    IF cfg.cb_enabled THEN OnSuccess(b) ELSE b

\* A thread is between the start of _acquire_token and its return.
Acquiring(t) ==
    pc[t] \in {"acquire", "attempt", "cache_token", "cache_expiry", "validate", "sleep"}

NoCache == <<NoCipher, NoTime>>

\* Mutant of ReleaseLock: an exception leaves the lock with the caller.
ReleaseLockOnReturnOnly(holder, res) ==
    IF res.kind = "error" THEN holder ELSE NoThread

\* The end of `with self._lock:` in get_token, reached by a return and by an
\* exception alike.
ReleaseLock(holder, res) == NoThread

\* get_token returns or raises: the `with` block releases the lock.
\* `okTok` is the token of the acquisition that just succeeded, or NoToken.
Leave(t, res, okTok) ==
    /\ lock' = ReleaseLock(lock, res)
    /\ pc' = [pc EXCEPT ![t] = "idle"]
    /\ lastReturn' = res
    /\ attempt' = [attempt EXCEPT ![t] = 0]
    /\ retryDelay' = [retryDelay EXCEPT ![t] = 0]
    /\ oauthTok' = [oauthTok EXCEPT ![t] = NoOAuthToken]
    /\ cacheBefore' = NoCache
    /\ waitedFor' = [u \in Threads |->
                        IF u = t THEN NoToken
                        ELSE IF okTok # NoToken /\ pc[u] = "wait" THEN okTok
                        ELSE waitedFor[u]]
    /\ servedFromWait' = [servedFromWait EXCEPT
                            ![t] = (res.path = "hit" /\ waitedFor[t] # NoToken)]

\* The variables Leave sets, for the steps that stay inside get_token.
StayInside(t, where) ==
    /\ pc' = [pc EXCEPT ![t] = where]
    /\ UNCHANGED <<lock, lastReturn, cacheBefore, servedFromWait>>

\* An attempt failed with e: sleep and go round again, or leave get_token.
FailAttempt(t, e) ==
    LET r == AttemptFailure(config, attempt[t], e)
    IN  /\ lastExc' = e
        /\ IF r.retry
           THEN /\ StayInside(t, "sleep")
                /\ UNCHANGED <<attempt, retryDelay, oauthTok, waitedFor, tmCb, tmConsec>>
           ELSE /\ Leave(t, ErrorResult(r.raise), NoToken)
                /\ tmCb' = BreakerAfterFailure(config, tmCb, r.raise, now)
                /\ tmConsec' = IF config.cb_enabled THEN tmConsec + 1 ELSE tmConsec

\* A caller enters get_token and waits for the lock.
GetTokenCall(t) ==
    /\ pc[t] = "idle"
    /\ calls < MaxCalls
    /\ calls' = calls + 1
    /\ pc' = [pc EXCEPT ![t] = "wait"]
    /\ lastExc' = "none"
    /\ servedFromWait' = [servedFromWait EXCEPT ![t] = FALSE]
    /\ UNCHANGED <<now, config, tmConsec, expirySrc, encCachedToken, tokenExpiry, lock, attempt, retryDelay,
                   oauthTok, lastReturn, tmCb, acquireCalls, rejectedTokens,
                   cacheBefore, waitedFor, nonTmVars>>

\* `with self._lock:` is entered.
GetTokenLock(t) ==
    /\ pc[t] = "wait"
    /\ LockAvailable(lock)
    /\ lock' = t
    /\ pc' = [pc EXCEPT ![t] = "locked"]
    /\ cacheBefore' = <<encCachedToken, tokenExpiry>>
    /\ lastExc' = "none"
    /\ UNCHANGED <<now, config, tmConsec, expirySrc, encCachedToken, tokenExpiry, attempt, retryDelay,
                   oauthTok, lastReturn, tmCb, acquireCalls, calls, rejectedTokens,
                   waitedFor, servedFromWait, nonTmVars>>

\* The validity check: a hit returns the decrypted cached token, a miss goes
\* on to _acquire_token.
GetTokenCheck(t) ==
    /\ pc[t] = "locked"
    /\ lastExc' = "none"
    /\ IF IsTokenValid(encCachedToken, tokenExpiry, now, config.buffer)
       THEN Leave(t, TokenResult(GetCachedToken(encCachedToken), "hit"), NoToken)
       ELSE /\ StayInside(t, "acquire")
            /\ UNCHANGED <<attempt, retryDelay, oauthTok, waitedFor>>
    /\ UNCHANGED <<now, config, tmConsec, expirySrc, encCachedToken, tokenExpiry, tmCb, acquireCalls, calls,
                   rejectedTokens, nonTmVars>>

\* _acquire_token: through the breaker if there is one, then into the retry
\* path.  A breaker that rejects raises CircuitBreakerError out of get_token.
AcquireToken(t) ==
    /\ pc[t] = "acquire"
    /\ lastExc' = "none"
    /\ tmCb' = IF config.cb_enabled THEN CallEnter(tmCb, config.timeout, now) ELSE tmCb
    /\ IF config.cb_enabled /\ CallRejected(tmCb, config.timeout, now)
       THEN Leave(t, ErrorResult("CircuitBreakerError"), NoToken)
       ELSE /\ StayInside(t, "attempt")
            /\ retryDelay' = [retryDelay EXCEPT ![t] = INITIAL_RETRY_DELAY_SECONDS]
            /\ UNCHANGED <<attempt, oauthTok, waitedFor>>
    /\ UNCHANGED <<now, config, tmConsec, expirySrc, encCachedToken, tokenExpiry, acquireCalls, calls,
                   rejectedTokens, nonTmVars>>

\* provider.acquire_token(): returns a new token with some lifetime, or raises.
ProviderAcquireToken(t) ==
    /\ pc[t] = "attempt"
    /\ acquireCalls' = acquireCalls + 1
    /\ \/ \E life \in Lifetimes :
            /\ oauthTok' = [oauthTok EXCEPT
                              ![t] = [access_token |-> acquireCalls + 1,
                                      expires_in |-> life]]
            /\ StayInside(t, "cache_token")
            /\ lastExc' = "none"
            /\ UNCHANGED <<attempt, retryDelay, waitedFor, tmCb, tmConsec>>
       \/ \E e \in ProviderErrors : FailAttempt(t, e)
    /\ UNCHANGED <<now, config, expirySrc, encCachedToken, tokenExpiry, calls, rejectedTokens,
                   nonTmVars>>

\* self._set_cached_token(oauth_token.access_token): the cache entry that the
\* waiting threads waited for is gone.
SetCachedToken(t) ==
    /\ pc[t] = "cache_token"
    /\ lastExc' = "none"
    /\ encCachedToken' = EncryptSecret(TmVaultKey, AccessTokenText(oauthTok[t].access_token))
    /\ StayInside(t, "cache_expiry")
    /\ waitedFor' = [u \in Threads |-> NoToken]
    /\ UNCHANGED <<now, config, tmConsec, expirySrc, tokenExpiry, attempt, retryDelay, oauthTok, tmCb,
                   acquireCalls, calls, rejectedTokens, nonTmVars>>

\* self._token_expiry = now + timedelta(seconds=oauth_token.expires_in)
SetTokenExpiry(t) ==
    /\ pc[t] = "cache_expiry"
    /\ lastExc' = "none"
    /\ tokenExpiry' = now + oauthTok[t].expires_in
    /\ expirySrc' = oauthTok[t]
    /\ StayInside(t, "validate")
    /\ UNCHANGED <<now, config, tmConsec, encCachedToken, attempt, retryDelay, oauthTok, tmCb,
                   acquireCalls, calls, rejectedTokens, waitedFor, nonTmVars>>

\* provider.validate_token(...): True returns the cached token to the caller,
\* False raises TokenAcquisitionError(TOKEN_VALIDATION_FAILED).
ValidateToken(t) ==
    /\ pc[t] = "validate"
    /\ \/ /\ Leave(t, TokenResult(GetCachedToken(encCachedToken), "acquired"),
                   oauthTok[t].access_token)
          /\ tmCb' = BreakerAfterSuccess(config, tmCb)
          /\ tmConsec' = 0
          /\ lastExc' = "none"
          /\ UNCHANGED rejectedTokens
       \/ /\ rejectedTokens' = rejectedTokens \cup {oauthTok[t].access_token}
          /\ FailAttempt(t, "TokenAcquisitionError")
    /\ UNCHANGED <<now, config, expirySrc, encCachedToken, tokenExpiry, acquireCalls, calls, nonTmVars>>

\* The delay before the next attempt: strategy.get_delay(attempt) under a
\* RetryConfig, the local retry_delay on the legacy path.
RetryDelay(cfg, att, legacyDelay) ==
    IF cfg.retry.enabled THEN GetDelay(cfg.retry.strategy, att) ELSE legacyDelay

\* time.sleep(delay) between two attempts, then the next round of the loop.
RetrySleep(t) ==
    /\ pc[t] = "sleep"
    /\ lastExc' = "none"
    /\ now + RetryDelay(config, attempt[t], retryDelay[t]) <= MaxTime
    /\ now' = now + RetryDelay(config, attempt[t], retryDelay[t])
    /\ attempt' = [attempt EXCEPT ![t] = @ + 1]
    /\ retryDelay' = [retryDelay EXCEPT ![t] = @ * 2]
    /\ StayInside(t, "attempt")
    /\ UNCHANGED <<config, tmConsec, expirySrc, encCachedToken, tokenExpiry, oauthTok, tmCb, acquireCalls,
                   calls, rejectedTokens, waitedFor, nonTmVars>>

\* The clock advances by a second.
Tick ==
    /\ now < MaxTime
    /\ now' = now + 1
    /\ UNCHANGED <<tmVars, cbVars, rcVars, extVars>>

\* TokenManager.__init__, and CircuitBreaker.__init__ for the breaker used directly.
CbFilters == {"all", "custom"}
CbConfigs ==
    {[failure_threshold |-> n, timeout |-> d, exception_filter |-> f] :
        n \in {1, 2}, d \in {1, 2}, f \in CbFilters}

\* CircuitBreaker.__init__ defaults of the fields
CbIdle ==
    /\ cb = CbNew
    /\ cbPc = [t \in Threads |-> "idle"]
    /\ cbLast = [thread |-> NoThread, out |-> "none"]
    /\ cbLock = NoThread
    /\ cbExc = [t \in Threads |-> "none"]
    /\ cbSeen = [thread |-> NoThread, state |-> "none", failure_count |-> 0]
    /\ probe = [t \in Threads |-> FALSE]
    /\ consec = 0

\* The retry strategies execute is run with.
FixedBackoff(d) ==
    [type |-> "fixed", initial_delay |-> d, increment |-> 0, multiplier |-> 0,
     max_delay |-> NoTime]
LinearBackoff(d, inc) ==
    [type |-> "linear", initial_delay |-> d, increment |-> inc, multiplier |-> 0,
     max_delay |-> NoTime]
ExponentialBackoff(d, mult, cap) ==
    [type |-> "exponential", initial_delay |-> d, increment |-> 0, multiplier |-> mult,
     max_delay |-> cap]

\* RetryConfig.__init__ is followed by no call of execute yet.
RcIdle ==
    /\ rcPc = "idle"
    /\ rcAttempt = 0
    /\ rcLastExc = "none"
    /\ rcOut = [kind |-> "none", err |-> "none", cause |-> "none"]
    /\ rcLog = <<>>

\* A RetryConfig that is not exercised.
RcUnused ==
    /\ rcCfg = [max_attempts |-> 1, strategy |-> FixedBackoff(0),
                should_retry |-> "all", on_retry |-> FALSE]
    /\ RcIdle

\* TokenManager.__init__: empty cache, free lock, nobody inside get_token.
TmIdle ==
    /\ encCachedToken = NoCipher
    /\ tokenExpiry = NoTime
    /\ lock = NoThread
    /\ pc = [t \in Threads |-> "idle"]
    /\ attempt = [t \in Threads |-> 0]
    /\ retryDelay = [t \in Threads |-> 0]
    /\ oauthTok = [t \in Threads |-> NoOAuthToken]
    /\ lastReturn = NoResult
    /\ tmCb = CbNew
    /\ acquireCalls = 0
    /\ calls = 0
    /\ rejectedTokens = {}
    /\ cacheBefore = NoCache
    /\ waitedFor = [t \in Threads |-> NoToken]
    /\ servedFromWait = [t \in Threads |-> FALSE]
    /\ tmConsec = 0
    /\ expirySrc = NoOAuthToken
    /\ lastExc = "none"

\* =========================================================================
\* handle_rest_api_servers (src/dicomweb_oauth_plugin.py): the status
\* endpoint reads the manager's cache without taking the manager's lock
\* =========================================================================
NoServerInfo ==
    [built |-> FALSE, has_cached_token |-> FALSE, token_valid |-> FALSE,
     token |-> NoToken, expiry_src |-> NoToken]

\* No request of the status endpoint is being handled.
StIdle ==
    /\ rdPc = "idle"
    /\ rdEnc = NoCipher
    /\ serverInfo = NoServerInfo

\* "has_cached_token": token_manager._encrypted_cached_token is not None
ServersHasCachedToken ==
    /\ rdPc = "idle"
    /\ rdPc' = "token"
    /\ rdEnc' = NoCipher
    /\ serverInfo' = [NoServerInfo EXCEPT !.has_cached_token = encCachedToken # NoCipher]
    /\ UNCHANGED <<now, tmVars, nonStVars>>

\* "token_valid": `... if token_manager._encrypted_cached_token else False`,
\* and the read of _encrypted_cached_token in _is_token_valid.
ServersReadToken ==
    /\ rdPc = "token"
    /\ rdEnc' = encCachedToken
    /\ IF encCachedToken # NoCipher
       THEN /\ rdPc' = "expiry"
            /\ UNCHANGED serverInfo
       ELSE /\ rdPc' = "idle"
            /\ serverInfo' = [serverInfo EXCEPT !.built = TRUE]
    /\ UNCHANGED <<now, tmVars, nonStVars>>

\* The read of _token_expiry in _is_token_valid; the entry is complete.
ServersReadExpiry ==
    /\ rdPc = "expiry"
    /\ rdPc' = "idle"
    /\ rdEnc' = NoCipher
    /\ serverInfo' = [serverInfo EXCEPT
                        !.built = TRUE,
                        !.token_valid = IsTokenValid(rdEnc, tokenExpiry, now, config.buffer),
                        !.token = GetCachedToken(rdEnc),
                        !.expiry_src = IF tokenExpiry = NoTime THEN NoToken
                                       ELSE expirySrc.access_token]
    /\ UNCHANGED <<now, tmVars, nonStVars>>

\* The configurations of the manager whose status is read: no RetryConfig,
\* no breaker.
StConfigs == {c \in Configs : ~c.retry.enabled /\ ~c.cb_enabled}


\* =========================================================================
\* SecretsManager instances used directly (src/secrets_manager.py)
\* =========================================================================
\* Code points of one, two and three UTF-8 bytes: "A", e-acute, the euro sign.
CodePoints == {65, 233, 8364}

\* The strings given to encrypt_secret.
Secrets == UNION {[1..n -> CodePoints] : n \in 0..MaxSecretLen}

NoSmOut == [raised |-> "none", value |-> <<>>, done |-> FALSE]

\* No SecretsManager has been constructed.
SmIdle ==
    /\ smVaults = 0
    /\ smSecret = <<>>
    /\ smCipher = NoCipher
    /\ smOut = [v \in 1..MaxVaults |-> NoSmOut]

\* SecretsManager()
SmNew ==
    /\ smVaults < MaxVaults
    /\ smVaults' = smVaults + 1
    /\ UNCHANGED <<now, smSecret, smCipher, smOut, nonSmVars>>

\* v.encrypt_secret(secret)
SmEncrypt(v, secret) ==
    /\ v <= smVaults
    /\ smSecret' = secret
    /\ smCipher' = EncryptSecret(VaultKey(v), secret)
    /\ smOut' = [u \in 1..MaxVaults |-> NoSmOut]
    /\ UNCHANGED <<now, smVaults, nonSmVars>>

\* v.decrypt_secret(encrypted) of the token encrypt_secret returned
SmDecrypt(v) ==
    /\ v <= smVaults
    /\ smCipher # NoCipher
    /\ LET r == DecryptSecret(VaultKey(v), smCipher)
       IN  smOut' = [smOut EXCEPT ![v] = [raised |-> r.raised, value |-> r.value,
                                           done |-> TRUE]]
    /\ UNCHANGED <<now, smVaults, smSecret, smCipher, nonSmVars>>


\* =========================================================================
\* OAuthProviderFactory (src/oauth_providers/factory.py) and the
\* construction of a TokenManager by initialize_plugin
\* =========================================================================
\* Token endpoints are sequences of text fragments; a substring is a run of
\* adjacent fragments.
Fragments ==
    {"https://", "login.microsoftonline.com", "oauth2.googleapis.com", "amazon",
     "aws", "AWS", ".com", "/auth/realms/", "auth.example.org"}

Endpoints == UNION {[1..n -> Fragments] : n \in 0..MaxEndpointLen}

\* `needle in text`
IsSubstring(needle, text) ==
    \E i \in 0..(Len(text) - Len(needle)) :
        SubSeq(text, i + 1, i + Len(needle)) = needle

\* str.lower()
Lower(text) == [i \in 1..Len(text) |-> IF text[i] = "AWS" THEN "aws" ELSE text[i]]

\* Mutant of AutoDetect: the Google domain is looked for first.
AutoDetectGoogleFirst(token_endpoint) ==
    IF IsSubstring(<<"oauth2.googleapis.com">>, token_endpoint) THEN "google"
    ELSE IF IsSubstring(<<"login.microsoftonline.com">>, token_endpoint) THEN "azure"
    ELSE IF \/ IsSubstring(<<"amazon", "aws", ".com">>, token_endpoint)
            \/ IsSubstring(<<"aws">>, Lower(token_endpoint)) THEN "aws"
    ELSE IF IsSubstring(<<"/auth/realms/">>, token_endpoint) THEN "keycloak"
    ELSE "generic"

\* OAuthProviderFactory.auto_detect
AutoDetect(token_endpoint) ==
    IF IsSubstring(<<"login.microsoftonline.com">>, token_endpoint) THEN "azure"
    ELSE IF IsSubstring(<<"oauth2.googleapis.com">>, token_endpoint) THEN "google"
    ELSE IF \/ IsSubstring(<<"amazon", "aws", ".com">>, token_endpoint)
            \/ IsSubstring(<<"aws">>, Lower(token_endpoint)) THEN "aws"
    ELSE IF IsSubstring(<<"/auth/realms/">>, token_endpoint) THEN "keycloak"
    ELSE "generic"

\* OAuthProviderFactory._providers
ProviderRegistry == {"generic", "azure", "google", "aws", "azuremanagedidentity"}

\* Mutant of Registered: create accepts every provider type.
RegisteredAny(provider_type) == TRUE

\* `provider_type in cls._providers`
Registered(provider_type) == provider_type \in ProviderRegistry

\* Values of ProviderType in a server's configuration.
ProviderTypes == ProviderRegistry \cup {"auto", "keycloak", "okta"}

\* Values of ClientSecret.
ClientSecrets == {<<65>>, <<233, 65>>}

PfConfigs ==
    [TokenEndpoint : Endpoints, ProviderType : ProviderTypes, ClientSecret : ClientSecrets]

NoManager ==
    [exists |-> FALSE, config_secret |-> <<>>, encrypted_client_secret |-> NoCipher,
     provider_type |-> "none", provider_secret |-> <<>>]

\* OAuthConfig.client_secret of the provider create builds: the managed
\* identity provider sets it to "", every other provider gets config["ClientSecret"].
ProviderSecret(provider_type, client_secret) ==
    IF provider_type = "azuremanagedidentity" THEN <<>> ELSE client_secret

\* The server is configured and initialize_plugin has not reached it.
PfIdle ==
    /\ pfPc = "configured"
    /\ pfOut = "none"
    /\ mgr = NoManager
    /\ detected = "none"
    /\ requestsSent = 0

\* initialize_plugin for this server: TokenManager(server_name, server_config)
\* and register_token_manager; an exception of the constructor is re-raised.
Construct ==
    /\ pfPc = "configured"
    /\ LET encrypted == EncryptSecret(TmVaultKey, pfCfg.ClientSecret)
           provider_type == IF pfCfg.ProviderType = "auto"
                            THEN AutoDetect(pfCfg.TokenEndpoint)
                            ELSE pfCfg.ProviderType
       IN  IF Registered(provider_type)
           THEN /\ pfPc' = "registered"
                /\ pfOut' = "ok"
                /\ mgr' = [exists |-> TRUE,
                           config_secret |-> pfCfg.ClientSecret,
                           encrypted_client_secret |-> encrypted,
                           provider_type |-> provider_type,
                           provider_secret |->
                               ProviderSecret(provider_type,
                                              DecryptSecret(TmVaultKey, encrypted).value)]
           ELSE /\ pfPc' = "failed"
                /\ pfOut' = "ValueError"
                /\ mgr' = NoManager
    /\ UNCHANGED <<now, pfCfg, detected, requestsSent, nonPfVars>>

\* provider.acquire_token() of the registered manager posts a token request
\* built from self.config.
ProviderTokenRequest ==
    /\ pfPc = "registered"
    /\ requestsSent < MaxRequests
    /\ requestsSent' = requestsSent + 1
    /\ UNCHANGED <<now, pfCfg, pfPc, pfOut, mgr, detected, nonPfVars>>

\* OAuthProviderFactory.auto_detect(config) called directly
AutoDetectCall ==
    /\ detected = "none"
    /\ detected' = AutoDetect(pfCfg.TokenEndpoint)
    /\ UNCHANGED <<now, pfCfg, pfPc, pfOut, mgr, requestsSent, nonPfVars>>

\* =========================================================================
\* One TokenManager per destination (src/token_manager.py, __init__): every
\* manager has its own SecretsManager, cache, expiry, lock and breaker
\* =========================================================================
Destinations == {"pacs-a", "pacs-b"}
NoDest == "none"

\* The key of the SecretsManager the manager of destination d constructed.
DestVaultKey(d) == IF d = "pacs-a" THEN VaultKey(1) ELSE VaultKey(2)

\* The configuration both managers are constructed with.
MmConfig == [buffer |-> 0, threshold |-> 2, timeout |-> 2]

\* TokenManager.__init__: the fields of a new manager.
NewManager == [enc |-> NoCipher, expiry |-> NoTime, lock |-> NoThread, cb |-> CbNew]

\* Mutant of LockOwner: the managers share one lock.
LockOwnerShared(d) == "pacs-a"

\* The manager whose _lock a get_token call on the manager of d takes.
LockOwner(d) == d

MmIdle ==
    /\ mgrs = [d \in Destinations |-> NewManager]
    /\ mmPc = [t \in Threads |-> [dest |-> NoDest, pc |-> "idle"]]
    /\ mmIssued = 0
    /\ mmCalls = 0

\* The manager's fields after get_token released the lock.
Released(m, d) == [m EXCEPT ![LockOwner(d)].lock = NoThread]

\* A caller enters get_token of the manager of d and waits for its lock.
MmGetTokenCall(t, d) ==
    /\ mmPc[t].pc = "idle"
    /\ mmCalls < MaxMmCalls
    /\ mmCalls' = mmCalls + 1
    /\ mmPc' = [mmPc EXCEPT ![t] = [dest |-> d, pc |-> "wait"]]
    /\ UNCHANGED <<now, mgrs, mmIssued, nonMmVars>>

\* `with self._lock:` is entered.
MmGetTokenLock(t) ==
    /\ mmPc[t].pc = "wait"
    /\ mgrs[LockOwner(mmPc[t].dest)].lock = NoThread
    /\ mgrs' = [mgrs EXCEPT ![LockOwner(mmPc[t].dest)].lock = t]
    /\ mmPc' = [mmPc EXCEPT ![t].pc = "locked"]
    /\ UNCHANGED <<now, mmIssued, mmCalls, nonMmVars>>

\* The validity check and, on a miss, the breaker's check in _acquire_token:
\* a hit returns the cached token, a breaker that rejects raises.
MmGetTokenCheck(t) ==
    /\ mmPc[t].pc = "locked"
    /\ LET d == mmPc[t].dest
           m == mgrs[d]
       IN  IF IsTokenValid(m.enc, m.expiry, now, MmConfig.buffer)
           THEN /\ mgrs' = Released(mgrs, d)
                /\ mmPc' = [mmPc EXCEPT ![t] = [dest |-> NoDest, pc |-> "idle"]]
           ELSE LET entered == [mgrs EXCEPT ![d].cb = CallEnter(m.cb, MmConfig.timeout, now)]
                IN  IF CallRejected(m.cb, MmConfig.timeout, now)
                    THEN /\ mgrs' = Released(entered, d)
                         /\ mmPc' = [mmPc EXCEPT ![t] = [dest |-> NoDest, pc |-> "idle"]]
                    ELSE /\ mgrs' = entered
                         /\ mmPc' = [mmPc EXCEPT ![t].pc = "attempt"]
    /\ UNCHANGED <<now, mmIssued, mmCalls, nonMmVars>>

\* The provider returned a token that validates: it is cached with its
\* expiry, the breaker records the success, get_token returns.
MmAcquired(t) ==
    /\ mmPc[t].pc = "attempt"
    /\ mmIssued' = mmIssued + 1
    /\ \E life \in Lifetimes :
        LET d == mmPc[t].dest
            cached == [mgrs EXCEPT
                         ![d].enc = EncryptSecret(DestVaultKey(d), AccessTokenText(mmIssued + 1)),
                         ![d].expiry = now + life,
                         ![d].cb = OnSuccess(mgrs[d].cb)]
        IN  mgrs' = Released(cached, d)
    /\ mmPc' = [mmPc EXCEPT ![t] = [dest |-> NoDest, pc |-> "idle"]]
    /\ UNCHANGED <<now, mmCalls, nonMmVars>>

\* The provider raised TokenAcquisitionError: the breaker records the
\* failure, get_token raises.
MmFailed(t) ==
    /\ mmPc[t].pc = "attempt"
    /\ LET d == mmPc[t].dest
           failed == [mgrs EXCEPT ![d].cb = OnFailure(mgrs[d].cb, MmConfig.threshold, now)]
       IN  mgrs' = Released(failed, d)
    /\ mmPc' = [mmPc EXCEPT ![t] = [dest |-> NoDest, pc |-> "idle"]]
    /\ UNCHANGED <<now, mmIssued, mmCalls, nonMmVars>>


\* =========================================================================
\* RateLimiter (src/rate_limiter.py)
\* =========================================================================
\* Rate limit keys: the remote addresses of the clients.
RlKeys == {"10.0.0.1", "10.0.0.2"}

RlConfigs == [max_requests : {1, 2}, window_seconds : {1, 2}]

\* Mutant of Prune: `<=` where the code has `<`.
RECURSIVE PruneInclusive(_, _)
PruneInclusive(requests, cutoff) ==
    IF requests # <<>> /\ Head(requests) <= cutoff
    THEN PruneInclusive(Tail(requests), cutoff)
    ELSE requests

\* `while requests and requests[0] < cutoff: requests.popleft()`
RECURSIVE Prune(_, _)
Prune(requests, cutoff) ==
    IF requests # <<>> /\ Head(requests) < cutoff
    THEN Prune(Tail(requests), cutoff)
    ELSE requests

\* Mutant of CheckOutcome: a rejected request is recorded too.
CheckOutcomeRecordsAll(requests, max_requests, t) ==
    [raised |-> Len(requests) >= max_requests, requests |-> Append(requests, t)]

\* check_rate_limit after the old requests are removed: raise, or record the
\* request.
CheckOutcome(requests, max_requests, t) ==
    IF Len(requests) >= max_requests
    THEN [raised |-> TRUE, requests |-> requests]
    ELSE [raised |-> FALSE, requests |-> Append(requests, t)]

NoRlCheck == [key |-> "none", out |-> "none"]

\* RateLimiter.__init__: no request recorded.
RlIdle ==
    /\ rlRequests = [k \in RlKeys |-> <<>>]
    /\ rlLast = NoRlCheck
    /\ rlAccepted = [k \in RlKeys |-> <<>>]
    /\ rlCalls = 0

\* check_rate_limit(key), the whole body under self._lock
CheckRateLimit(key) ==
    /\ rlCalls < MaxRlCalls
    /\ rlCalls' = rlCalls + 1
    /\ LET cutoff == now - rlCfg.window_seconds
           r == CheckOutcome(Prune(rlRequests[key], cutoff), rlCfg.max_requests, now)
       IN  /\ rlRequests' = [rlRequests EXCEPT ![key] = r.requests]
           /\ rlLast' = [key |-> key,
                         out |-> IF r.raised THEN "RateLimitExceeded" ELSE "accepted"]
           /\ rlAccepted' = IF r.raised THEN rlAccepted
                            ELSE [rlAccepted EXCEPT ![key] = Append(@, now)]
    /\ UNCHANGED <<now, rlCfg, nonRlVars>>


\* Mutant of ResetKey: the whole table is cleared.
ResetAll(requests, key) == [k \in RlKeys |-> <<>>]

\* `if key in self._requests: del self._requests[key]`; a key that is absent
\* from the defaultdict reads as an empty deque.
ResetKey(requests, key) == [requests EXCEPT ![key] = <<>>]

\* `max(0, self.max_requests - len(requests))`
Remaining(requests, max_requests) ==
    IF max_requests - Len(requests) > 0 THEN max_requests - Len(requests) ELSE 0

\* reset(key), the whole body under self._lock
RlReset(key) ==
    /\ rlCalls < MaxRlCalls
    /\ rlCalls' = rlCalls + 1
    /\ rlRequests' = ResetKey(rlRequests, key)
    /\ rlLast' = [key |-> key, out |-> "reset"]
    /\ UNCHANGED <<now, rlCfg, rlAccepted, nonRlVars>>

\* get_remaining(key), the whole body under self._lock: the old requests of
\* the key are removed, then the remaining count is returned.
RlGetRemaining(key) ==
    /\ rlCalls < MaxRlCalls
    /\ rlCalls' = rlCalls + 1
    /\ LET requests == Prune(rlRequests[key], now - rlCfg.window_seconds)
       IN  /\ rlRequests' = [rlRequests EXCEPT ![key] = requests]
           /\ rlLast' = [key |-> key,
                         out |-> <<"remaining", Remaining(requests, rlCfg.max_requests)>>]
    /\ UNCHANGED <<now, rlCfg, rlAccepted, nonRlVars>>


\* =========================================================================
\* PluginContext (src/plugin_context.py)
\* =========================================================================
\* `None` for an object reference; objects are numbered from 1.
NoObject == 0

\* Class attributes at import: _instance = None, _initialized = False, and an
\* unlocked _lock; no call of get_instance has begun.
CtxIdle ==
    /\ ctxClass = [instance |-> NoObject, initialized |-> FALSE, lock |-> NoThread]
    /\ ctxObjects = <<>>
    /\ ctxThr = [t \in Threads |->
                   [pc |-> "idle", instance |-> NoObject, ret |-> NoObject,
                    path |-> "none", calls |-> 0]]

\* Mutant of InstanceIsNone: the creation is not skipped when an instance exists.
InstanceIsNoneIgnored(instance) == TRUE

\* `cls._instance is None`
InstanceIsNone(instance) == instance = NoObject

\* get_instance, line 35: the first test of cls._instance, without the lock
GetInstanceTest(t) ==
    /\ ctxThr[t].pc = "idle"
    /\ ctxThr[t].calls < MaxCtxCalls
    /\ ctxThr' = [ctxThr EXCEPT ![t].pc =
                     IF ctxClass.instance = NoObject THEN "lock" ELSE "return",
                                ![t].path = "unlocked",
                                ![t].ret = NoObject]
    /\ UNCHANGED <<now, ctxClass, ctxObjects, nonCtxVars>>

\* line 36: `with cls._lock:` blocks until the lock is free
GetInstanceLock(t) ==
    /\ ctxThr[t].pc = "lock"
    /\ ctxClass.lock = NoThread
    /\ ctxClass' = [ctxClass EXCEPT !.lock = t]
    /\ ctxThr' = [ctxThr EXCEPT ![t].pc = "retest"]
    /\ UNCHANGED <<now, ctxObjects, nonCtxVars>>

\* line 38: the second test, under the lock; an existing instance ends the
\* with block
GetInstanceRetest(t) ==
    /\ ctxThr[t].pc = "retest"
    /\ IF InstanceIsNone(ctxClass.instance)
       THEN /\ ctxThr' = [ctxThr EXCEPT ![t].pc = "new"]
            /\ UNCHANGED ctxClass
       ELSE /\ ctxThr' = [ctxThr EXCEPT ![t].pc = "return", ![t].path = "found"]
            /\ ctxClass' = [ctxClass EXCEPT !.lock = NoThread]
    /\ UNCHANGED <<now, ctxObjects, nonCtxVars>>

\* lines 40-41: object.__new__(cls) and instance._initialize()
GetInstanceNew(t) ==
    /\ ctxThr[t].pc = "new"
    /\ ctxObjects' = Append(ctxObjects, [by |-> t, initialized |-> TRUE])
    /\ ctxThr' = [ctxThr EXCEPT ![t].pc = "assign",
                                ![t].instance = Len(ctxObjects) + 1]
    /\ UNCHANGED <<now, ctxClass, nonCtxVars>>

\* line 42: cls._instance = instance
GetInstanceAssign(t) ==
    /\ ctxThr[t].pc = "assign"
    /\ ctxClass' = [ctxClass EXCEPT !.instance = ctxThr[t].instance]
    /\ ctxThr' = [ctxThr EXCEPT ![t].pc = "flag"]
    /\ UNCHANGED <<now, ctxObjects, nonCtxVars>>

\* line 43: cls._initialized = True, and the end of the with block
GetInstanceFlag(t) ==
    /\ ctxThr[t].pc = "flag"
    /\ ctxClass' = [ctxClass EXCEPT !.initialized = TRUE, !.lock = NoThread]
    /\ ctxThr' = [ctxThr EXCEPT ![t].pc = "return", ![t].path = "created"]
    /\ UNCHANGED <<now, ctxObjects, nonCtxVars>>

\* line 45: `return cls._instance` reads the class attribute again
GetInstanceReturn(t) ==
    /\ ctxThr[t].pc = "return"
    /\ ctxThr' = [ctxThr EXCEPT ![t].pc = "idle",
                                ![t].ret = ctxClass.instance,
                                ![t].instance = NoObject,
                                ![t].calls = @ + 1]
    /\ UNCHANGED <<now, ctxClass, ctxObjects, nonCtxVars>>


\* =========================================================================
\* STOW-RS proxy (src/dicomweb_oauth_plugin.py, handle_rest_api_stow)
\* =========================================================================
\* Request URIs as uri.split("/") sees them: a configured server, a server
\* that is not configured, and a URI with fewer than five parts.
StowUris ==
    {<<"", "dicomweb-oauth", "servers", "pacs-a", "stow">>,
     <<"", "dicomweb-oauth", "servers", "pacs-x", "stow">>,
     <<"", "dicomweb-oauth", "stow">>}

\* What token_manager.get_token() does for the request: returns the token
\* the provider issued (the provider accepts any access_token field, the
\* empty string included), or raises.
GetTokenOutcomes ==
    {[raised |-> "none", token |-> "T1"], [raised |-> "none", token |-> ""]}
    \cup {[raised |-> e, token |-> ""] :
             e \in {"TokenAcquisitionError", "NetworkError", "CircuitBreakerError"}}

\* Content types and bodies of the request.
StowContentTypes == {"multipart/related", "application/json"}
StowBodies == {"resources", "no_resources", "invalid_json", "not_an_object",
               "missing_instance"}

\* What requests.post and raise_for_status do.
Upstreams == {"ok", "RequestException"}

StowRequests ==
    [uri : StowUris, server_url : {"https://pacs-a/dicomweb/", ""},
     get_token : GetTokenOutcomes, content_type : StowContentTypes,
     body : StowBodies, upstream : Upstreams]

\* The context holds one registered server.
RegisteredServers == {"pacs-a"}

\* No request is being handled and nothing was written to the output.
SwIdle ==
    /\ stow = [pc |-> "idle", server_name |-> "", token |-> "", out |-> "none"]
    /\ answers = <<>>

\* _extract_server_name: (server_name, error)
ExtractServerName(uri) ==
    IF Len(uri) < 5
    THEN [server_name |-> "", error |-> "Server name not specified"]
    ELSE [server_name |-> uri[4], error |-> "none"]

\* `if token`, `if not token`: the empty string is false
Truthy(token) == token # ""

\* _prepare_request_body_and_headers and _prepare_json_request: the error
\* message, or the exception that leaves the function.  A JSON body that is
\* not an object has no `get`.
PrepareRequestBodyAndHeaders(content_type, body) ==
    IF content_type = "multipart/related"
    THEN [raised |-> "none", error |-> "none"]
    ELSE CASE body = "invalid_json" ->
                 [raised |-> "none", error |-> "Invalid request body: JSONDecodeError"]
           [] body = "not_an_object" ->
                 [raised |-> "AttributeError", error |-> "none"]
           [] body = "no_resources" ->
                 [raised |-> "none", error |-> "No resources specified"]
           [] body = "missing_instance" ->
                 [raised |-> "none", error |-> "Failed to get DICOM file"]
           [] OTHER -> [raised |-> "none", error |-> "none"]

\* output.AnswerBuffer(...)
Answer(by, what) == Append(answers, [by |-> by, what |-> what])

\* _process_stow_request ends: it returns, or an exception leaves it.
Processed(out) == [stow EXCEPT !.pc = "processed", !.out = out]

\* _process_stow_request, lines 441-450
StowExtract ==
    /\ stow.pc = "idle"
    /\ LET r == ExtractServerName(stowReq.uri)
       IN  IF r.error # "none"
           THEN /\ answers' = Answer("_process_stow_request", r.error)
                /\ stow' = Processed("returned")
           ELSE /\ stow' = [stow EXCEPT !.pc = "token", !.server_name = r.server_name]
                /\ UNCHANGED answers
    /\ UNCHANGED <<now, stowReq, nonSwVars>>

\* lines 453-455, with _get_oauth_token
StowGetToken ==
    /\ stow.pc = "token"
    /\ LET r == stowReq.get_token
       IN  CASE stow.server_name \notin RegisteredServers ->
                  /\ answers' = Answer("_get_oauth_token", "not configured")
                  /\ stow' = Processed("returned")
             [] stow.server_name \in RegisteredServers
                  /\ r.raised = "TokenAcquisitionError" ->
                  /\ answers' = Answer("_get_oauth_token", "OAuth token acquisition failed")
                  /\ stow' = Processed("returned")
             [] stow.server_name \in RegisteredServers
                  /\ r.raised \notin {"none", "TokenAcquisitionError"} ->
                  /\ stow' = Processed(r.raised)
                  /\ UNCHANGED answers
             [] stow.server_name \in RegisteredServers
                  /\ r.raised = "none" /\ ~Truthy(r.token) ->
                  /\ stow' = Processed("returned")
                  /\ UNCHANGED answers
             [] OTHER ->
                  /\ stow' = [stow EXCEPT !.pc = "url", !.token = r.token]
                  /\ UNCHANGED answers
    /\ UNCHANGED <<now, stowReq, nonSwVars>>

\* lines 457-459, with _get_stow_url
StowGetUrl ==
    /\ stow.pc = "url"
    /\ IF stowReq.server_url = ""
       THEN /\ answers' = Answer("_get_stow_url", "Server URL not found")
            /\ stow' = Processed("returned")
       ELSE /\ stow' = [stow EXCEPT !.pc = "prepare"]
            /\ UNCHANGED answers
    /\ UNCHANGED <<now, stowReq, nonSwVars>>

\* lines 462-473
StowPrepare ==
    /\ stow.pc = "prepare"
    /\ LET r == PrepareRequestBodyAndHeaders(stowReq.content_type, stowReq.body)
       IN  CASE r.raised # "none" ->
                  /\ stow' = Processed(r.raised)
                  /\ UNCHANGED answers
             [] r.raised = "none" /\ r.error # "none" ->
                  /\ answers' = Answer("_process_stow_request", r.error)
                  /\ stow' = Processed("returned")
             [] OTHER ->
                  /\ stow' = [stow EXCEPT !.pc = "send"]
                  /\ UNCHANGED answers
    /\ UNCHANGED <<now, stowReq, nonSwVars>>

\* lines 476-479, with _send_dicom_to_server
StowSend ==
    /\ stow.pc = "send"
    /\ answers' = Answer("_send_dicom_to_server",
                         IF stowReq.upstream = "ok" THEN "response.content"
                         ELSE "Failed to send to remote DICOM server")
    /\ stow' = Processed("returned")
    /\ UNCHANGED <<now, stowReq, nonSwVars>>

\* handle_rest_api_stow, lines 509-517: an exception that left
\* _process_stow_request is answered here
StowHandlerEnd ==
    /\ stow.pc = "processed"
    /\ stow' = [stow EXCEPT !.pc = "done"]
    /\ answers' = IF stow.out = "returned" THEN answers
                  ELSE Answer("handle_rest_api_stow", stow.out)
    /\ UNCHANGED <<now, stowReq, nonSwVars>>


\* =========================================================================
\* Components that a specification does not exercise
\* =========================================================================
\* A configured server that initialize_plugin does not reach.
PfUnused ==
    /\ pfCfg = [TokenEndpoint |-> <<>>, ProviderType |-> "generic", ClientSecret |-> <<65>>]
    /\ PfIdle

\* A rate limiter that receives no request.
RlUnused ==
    /\ rlCfg = [max_requests |-> 1, window_seconds |-> 1]
    /\ RlIdle

\* A proxy endpoint that receives no request.
SwUnused ==
    /\ stowReq = [uri |-> <<"", "dicomweb-oauth", "stow">>, server_url |-> "",
                  get_token |-> [raised |-> "none", token |-> ""],
                  content_type |-> "application/json", body |-> "no_resources",
                  upstream |-> "ok"]
    /\ SwIdle

\* =========================================================================
\* Specification of the manager
\* =========================================================================
\* A manager constructed with any of the configurations (the breaker used
\* directly is not exercised).
InitTM ==
    /\ now = 0
    /\ config \in Configs
    /\ TmIdle
    /\ cbCfg = [failure_threshold |-> 1, timeout |-> 1, exception_filter |-> "all"]
    /\ CbIdle
    /\ RcUnused
    /\ StIdle /\ SmIdle /\ PfUnused /\ MmIdle /\ RlUnused /\ CtxIdle /\ SwUnused

NextTM ==
    \/ \E t \in Threads :
        \/ GetTokenCall(t)
        \/ GetTokenLock(t)
        \/ GetTokenCheck(t)
        \/ AcquireToken(t)
        \/ ProviderAcquireToken(t)
        \/ SetCachedToken(t)
        \/ SetTokenExpiry(t)
        \/ ValidateToken(t)
        \/ RetrySleep(t)
    \/ Tick

SpecTM == InitTM /\ [][NextTM]_vars

\* A thread inside get_token takes its next step: the interpreter runs it,
\* the lock is granted when free, the provider call and the sleep return.
Proceeds(t) ==
    \/ GetTokenLock(t)
    \/ GetTokenCheck(t)
    \/ AcquireToken(t)
    \/ ProviderAcquireToken(t)
    \/ SetCachedToken(t)
    \/ SetTokenExpiry(t)
    \/ ValidateToken(t)
    \/ RetrySleep(t)

\* A manager with a breaker that opens at the first failure, with and
\* without a RetryConfig.
FairConfigs ==
    {c \in Configs : c.buffer = 0 /\ c.cb_enabled /\ c.threshold = 1}

InitTMF ==
    /\ InitTM
    /\ config \in FairConfigs

\* The manager with threads that keep running.
SpecTMF == InitTMF /\ [][NextTM]_vars /\ \A t \in Threads : WF_vars(Proceeds(t))


\* =========================================================================
\* CircuitBreaker called directly by several threads
\* =========================================================================
\* Exceptions the wrapped function raises (the classes of the breaker's tests).
CbErrors == {"NetworkError", "ValidationError"}

\* Mutant of CbExceptionFilter: the configured filter is ignored.
CbExceptionFilterIgnored(f, e) == TRUE

\* exception_filter: the default counts every exception, the custom one of
\* the tests counts NetworkError only.
CbExceptionFilter(f, e) == IF f = "all" THEN TRUE ELSE e = "NetworkError"

\* call up to the wrapped function: rejected with CircuitBreakerError, or the
\* function starts (the breaker's lock is released before it runs).
CbCall(t) ==
    /\ cbPc[t] = "idle"
    /\ cb.total_calls < MaxCbCalls
    /\ cb' = CallEnter(cb, cbCfg.timeout, now)
    /\ IF CallRejected(cb, cbCfg.timeout, now)
       THEN /\ cbLast' = [thread |-> t, out |-> "CircuitBreakerError"]
            /\ UNCHANGED <<cbPc, probe>>
       ELSE /\ cbPc' = [cbPc EXCEPT ![t] = "exec"]
            /\ probe' = [probe EXCEPT ![t] = (cb.state = "OPEN")]
            /\ UNCHANGED cbLast
    /\ UNCHANGED <<now, nonCbVars, cbCfg, consec, cbLock, cbExc, cbSeen>>

\* The wrapped function returns: _on_success, and call returns its result.
CbFuncReturns(t) ==
    /\ cbPc[t] = "exec"
    /\ cb' = OnSuccess(cb)
    /\ cbPc' = [cbPc EXCEPT ![t] = "idle"]
    /\ probe' = [probe EXCEPT ![t] = FALSE]
    /\ cbLast' = [thread |-> t, out |-> "ok"]
    /\ consec' = 0
    /\ UNCHANGED <<now, nonCbVars, cbCfg, cbLock, cbExc, cbSeen>>

\* The wrapped function raises e: _on_failure if the filter counts e, and
\* call re-raises e.
CbFuncRaises(t) ==
    /\ cbPc[t] = "exec"
    /\ \E e \in CbErrors :
        /\ IF CbExceptionFilter(cbCfg.exception_filter, e)
           THEN /\ cb' = OnFailure(cb, cbCfg.failure_threshold, now)
                /\ consec' = consec + 1
           ELSE UNCHANGED <<cb, consec>>
        /\ cbLast' = [thread |-> t, out |-> e]
    /\ cbPc' = [cbPc EXCEPT ![t] = "idle"]
    /\ probe' = [probe EXCEPT ![t] = FALSE]
    /\ UNCHANGED <<now, nonCbVars, cbCfg, cbLock, cbExc, cbSeen>>

\* reset()
CbReset ==
    /\ cb' = ResetBreaker(cb)
    /\ consec' = 0
    /\ UNCHANGED <<now, nonCbVars, cbCfg, cbPc, cbLast, probe, cbLock, cbExc, cbSeen>>

\* A breaker constructed with any of the configurations (the manager is not
\* exercised).
InitCB ==
    /\ now = 0
    /\ config = [buffer |-> 0, retry |-> NoRetryConfig, cb_enabled |-> FALSE,
                 threshold |-> 1, timeout |-> 2]
    /\ TmIdle
    /\ cbCfg \in CbConfigs
    /\ CbIdle
    /\ RcUnused
    /\ StIdle /\ SmIdle /\ PfUnused /\ MmIdle /\ RlUnused /\ CtxIdle /\ SwUnused

NextCB ==
    \/ \E t \in Threads :
        \/ CbCall(t)
        \/ CbFuncReturns(t)
        \/ CbFuncRaises(t)
    \/ CbReset
    \/ Tick

SpecCB == InitCB /\ [][NextCB]_vars



\* =========================================================================
\* CircuitBreaker with its lock: each `with self._lock` block is entered and
\* left in steps of its own, the wrapped function runs between them
\* =========================================================================
\* The places in call where the thread is inside a `with self._lock` block.
LockedSections == {"check", "on_success", "on_failure"}

\* Mutant of LockAfterCheck: the lock is kept while the wrapped function runs.
LockKeptAfterCheck(holder) == holder

\* call: the `with self._lock` block ends before the wrapped function runs.
LockAfterCheck(holder) == NoThread

\* call enters `with self._lock`.
LockedCallEnter(t) ==
    /\ cbPc[t] = "idle"
    /\ cb.total_calls < MaxLockedCalls
    /\ cbLock = NoThread
    /\ cbLock' = t
    /\ cbPc' = [cbPc EXCEPT ![t] = "check"]
    /\ UNCHANGED <<now, nonCbVars, cbCfg, cb, cbLast, cbExc, cbSeen, probe, consec>>

\* call inside the lock: count the call, reject it or let it through, and
\* leave the `with` block (by the raise or by falling out of it).
LockedCallCheck(t) ==
    /\ cbPc[t] = "check"
    /\ cb' = CallEnter(cb, cbCfg.timeout, now)
    /\ IF CallRejected(cb, cbCfg.timeout, now)
       THEN /\ cbLast' = [thread |-> t, out |-> "CircuitBreakerError"]
            /\ cbPc' = [cbPc EXCEPT ![t] = "idle"]
            /\ cbLock' = NoThread
       ELSE /\ cbPc' = [cbPc EXCEPT ![t] = "exec"]
            /\ cbLock' = LockAfterCheck(t)
            /\ UNCHANGED cbLast
    /\ UNCHANGED <<now, nonCbVars, cbCfg, cbExc, cbSeen, probe, consec>>

\* The wrapped function returns and _on_success enters `with self._lock`.
LockedFuncReturns(t) ==
    /\ cbPc[t] = "exec"
    /\ cbLock = NoThread
    /\ cbLock' = t
    /\ cbPc' = [cbPc EXCEPT ![t] = "on_success"]
    /\ UNCHANGED <<now, nonCbVars, cbCfg, cb, cbLast, cbExc, cbSeen, probe, consec>>

\* _on_success inside the lock, then call returns the result.
LockedOnSuccess(t) ==
    /\ cbPc[t] = "on_success"
    /\ cb' = OnSuccess(cb)
    /\ cbLock' = NoThread
    /\ cbPc' = [cbPc EXCEPT ![t] = "idle"]
    /\ cbLast' = [thread |-> t, out |-> "ok"]
    /\ UNCHANGED <<now, nonCbVars, cbCfg, cbExc, cbSeen, probe, consec>>

\* The wrapped function raises e: if the filter counts it _on_failure enters
\* `with self._lock`, otherwise call re-raises it at once.
LockedFuncRaises(t) ==
    /\ cbPc[t] = "exec"
    /\ \E e \in CbErrors :
        IF CbExceptionFilter(cbCfg.exception_filter, e)
        THEN /\ cbLock = NoThread
             /\ cbLock' = t
             /\ cbExc' = [cbExc EXCEPT ![t] = e]
             /\ cbPc' = [cbPc EXCEPT ![t] = "on_failure"]
             /\ UNCHANGED cbLast
        ELSE /\ cbLast' = [thread |-> t, out |-> e]
             /\ cbPc' = [cbPc EXCEPT ![t] = "idle"]
             /\ UNCHANGED <<cbLock, cbExc>>
    /\ UNCHANGED <<now, nonCbVars, cbCfg, cb, cbSeen, probe, consec>>

\* _on_failure inside the lock, then call re-raises the exception.
LockedOnFailure(t) ==
    /\ cbPc[t] = "on_failure"
    /\ cb' = OnFailure(cb, cbCfg.failure_threshold, now)
    /\ cbLock' = NoThread
    /\ cbPc' = [cbPc EXCEPT ![t] = "idle"]
    /\ cbLast' = [thread |-> t, out |-> cbExc[t]]
    /\ cbExc' = [cbExc EXCEPT ![t] = "none"]
    /\ UNCHANGED <<now, nonCbVars, cbCfg, cbSeen, probe, consec>>

\* The `state` and `failure_count` properties: read under the lock.
ReadState(t) ==
    /\ cbPc[t] = "idle"
    /\ cbLock = NoThread
    /\ cbSeen' = [thread |-> t, state |-> cb.state, failure_count |-> cb.failure_count]
    /\ UNCHANGED <<now, nonCbVars, cbCfg, cb, cbPc, cbLast, cbLock, cbExc, probe, consec>>

NextCBL ==
    \/ \E t \in Threads :
        \/ LockedCallEnter(t)
        \/ LockedCallCheck(t)
        \/ LockedFuncReturns(t)
        \/ LockedOnSuccess(t)
        \/ LockedFuncRaises(t)
        \/ LockedOnFailure(t)
        \/ ReadState(t)
    \/ Tick

SpecCBL == InitCB /\ [][NextCBL]_vars



\* =========================================================================
\* RetryConfig.execute (src/resilience/retry_strategy.py) called directly
\* =========================================================================
\* Exceptions the operation raises (the classes of the retry tests).
RcErrors == {"RetryableError", "NonRetryableError"}

\* should_retry: the default retries every exception, the custom one of the
\* tests retries RetryableError only.
RcFilters == {"all", "custom"}

\* Mutant of RcShouldRetry: the configured predicate is ignored.
RcShouldRetryIgnored(f, e) == TRUE

RcShouldRetry(f, e) == IF f = "all" THEN TRUE ELSE e = "RetryableError"

RcStrategies == {FixedBackoff(1), LinearBackoff(1, 1), ExponentialBackoff(1, 2, 3)}

RcConfigs ==
    {[max_attempts |-> n, strategy |-> s, should_retry |-> f, on_retry |-> h] :
        n \in 1..MaxAttempts, s \in RcStrategies, f \in RcFilters, h \in BOOLEAN}

\* Entries of the log.
Invoked(att, outcome) == [ev |-> "invoke", att |-> att, exc |-> outcome, delay |-> 0]
OnRetryCalled(att, e) == [ev |-> "on_retry", att |-> att, exc |-> e, delay |-> 0]
Slept(att, d) == [ev |-> "sleep", att |-> att, exc |-> "none", delay |-> d]

\* What execute gives back.
RcValue == [kind |-> "value", err |-> "none", cause |-> "none"]
RcRaised(e) == [kind |-> "error", err |-> e, cause |-> "none"]

\* Mutant of RcExhausted: the error is raised without `from last_exception`.
RcExhaustedNoCause(last_exception) ==
    [kind |-> "error", err |-> "RetryExhaustedError", cause |-> "none"]

\* raise RetryExhaustedError(...) from last_exception
RcExhausted(last_exception) ==
    [kind |-> "error", err |-> "RetryExhaustedError", cause |-> last_exception]

\* Mutant of BetweenAttempts: the next attempt follows without the delay.
BetweenAttemptsNoSleep(cfg, att, e) ==
    IF cfg.on_retry THEN <<OnRetryCalled(att, e)>> ELSE <<>>

\* Mutant of BetweenAttempts: the delay comes before the callback.
BetweenAttemptsSleepFirst(cfg, att, e) ==
    <<Slept(att, GetDelay(cfg.strategy, att))>>
        \o (IF cfg.on_retry THEN <<OnRetryCalled(att, e)>> ELSE <<>>)

\* Between failed attempt `att` and the next one: the callback if there is
\* one, then time.sleep(strategy.get_delay(att)).
BetweenAttempts(cfg, att, e) ==
    (IF cfg.on_retry THEN <<OnRetryCalled(att, e)>> ELSE <<>>)
        \o <<Slept(att, GetDelay(cfg.strategy, att))>>

\* execute is called.
RcExecute ==
    /\ rcPc = "idle"
    /\ rcPc' = IF rcCfg.max_attempts > 0 THEN "call" ELSE "done"
    /\ rcOut' = IF rcCfg.max_attempts > 0 THEN rcOut ELSE RcExhausted(rcLastExc)
    /\ rcAttempt' = 0
    /\ UNCHANGED <<now, nonRcVars, rcCfg, rcLastExc, rcLog>>

\* `return func(*args, **kwargs)`: the operation returns.
RcFuncReturns ==
    /\ rcPc = "call"
    /\ rcLog' = Append(rcLog, Invoked(rcAttempt, "none"))
    /\ rcOut' = RcValue
    /\ rcPc' = "done"
    /\ UNCHANGED <<now, nonRcVars, rcCfg, rcAttempt, rcLastExc>>

\* The operation raises e: re-raise it if should_retry says no, give up if
\* this was the last attempt, otherwise callback, sleep and the next attempt.
RcFuncRaises ==
    /\ rcPc = "call"
    /\ \E e \in RcErrors :
        /\ rcLastExc' = e
        /\ IF ~RcShouldRetry(rcCfg.should_retry, e)
           THEN /\ rcLog' = Append(rcLog, Invoked(rcAttempt, e))
                /\ rcOut' = RcRaised(e)
                /\ rcPc' = "done"
                /\ UNCHANGED rcAttempt
           ELSE IF rcAttempt >= rcCfg.max_attempts - 1
           THEN /\ rcLog' = Append(rcLog, Invoked(rcAttempt, e))
                /\ rcOut' = RcExhausted(e)
                /\ rcPc' = "done"
                /\ UNCHANGED rcAttempt
           ELSE /\ rcLog' = Append(rcLog, Invoked(rcAttempt, e))
                                \o BetweenAttempts(rcCfg, rcAttempt, e)
                /\ rcAttempt' = rcAttempt + 1
                /\ IF rcAttempt + 1 < rcCfg.max_attempts
                   THEN rcPc' = "call" /\ UNCHANGED rcOut
                   ELSE rcPc' = "done" /\ rcOut' = RcExhausted(e)
    /\ UNCHANGED <<now, nonRcVars, rcCfg>>

\* A RetryConfig constructed with any of the configurations (the manager and
\* the breaker are not exercised).
InitRC ==
    /\ now = 0
    /\ config = [buffer |-> 0, retry |-> NoRetryConfig, cb_enabled |-> FALSE,
                 threshold |-> 1, timeout |-> 2]
    /\ TmIdle
    /\ cbCfg = [failure_threshold |-> 1, timeout |-> 1, exception_filter |-> "all"]
    /\ CbIdle
    /\ rcCfg \in RcConfigs
    /\ RcIdle
    /\ StIdle /\ SmIdle /\ PfUnused /\ MmIdle /\ RlUnused /\ CtxIdle /\ SwUnused

NextRC ==
    \/ RcExecute
    \/ RcFuncReturns
    \/ RcFuncRaises

SpecRC == InitRC /\ [][NextRC]_vars

\* A RetryConfig constructed with any max_attempts: neither __init__ nor
\* _create_retry_config rejects a RetryMaxAttempts of 0.
RcConfigsAny ==
    RcConfigs \cup
    {[max_attempts |-> 0, strategy |-> s, should_retry |-> f, on_retry |-> h] :
        s \in RcStrategies, f \in RcFilters, h \in BOOLEAN}

InitRCA ==
    /\ now = 0
    /\ config = [buffer |-> 0, retry |-> NoRetryConfig, cb_enabled |-> FALSE,
                 threshold |-> 1, timeout |-> 2]
    /\ TmIdle
    /\ cbCfg = [failure_threshold |-> 1, timeout |-> 1, exception_filter |-> "all"]
    /\ CbIdle
    /\ rcCfg \in RcConfigsAny
    /\ RcIdle
    /\ StIdle /\ SmIdle /\ PfUnused /\ MmIdle /\ RlUnused /\ CtxIdle /\ SwUnused

SpecRCA == InitRCA /\ [][NextRC]_vars


\* =========================================================================
\* Specifications of the other components
\* =========================================================================
\* The manager, the breaker and the RetryConfig, not exercised.
CoreUnused ==
    /\ now = 0
    /\ config = [buffer |-> 0, retry |-> NoRetryConfig, cb_enabled |-> FALSE,
                 threshold |-> 1, timeout |-> 2]
    /\ TmIdle
    /\ cbCfg = [failure_threshold |-> 1, timeout |-> 1, exception_filter |-> "all"]
    /\ CbIdle
    /\ RcUnused


\* The manager with the status endpoint reading it.
InitST ==
    /\ InitTM
    /\ config \in StConfigs

NextST ==
    \/ NextTM
    \/ ServersHasCachedToken
    \/ ServersReadToken
    \/ ServersReadExpiry

SpecST == InitST /\ [][NextST]_vars

\* SecretsManager instances.
InitSM ==
    /\ CoreUnused
    /\ StIdle /\ SmIdle /\ PfUnused /\ MmIdle /\ RlUnused /\ CtxIdle /\ SwUnused

NextSM ==
    \/ SmNew
    \/ \E v \in 1..MaxVaults :
        \/ \E secret \in Secrets : SmEncrypt(v, secret)
        \/ SmDecrypt(v)

SpecSM == InitSM /\ [][NextSM]_vars

\* A server configured with any of the configurations.
InitPF ==
    /\ CoreUnused
    /\ StIdle /\ SmIdle /\ MmIdle /\ RlUnused /\ CtxIdle /\ SwUnused
    /\ pfCfg \in PfConfigs
    /\ PfIdle

NextPF ==
    \/ Construct
    \/ ProviderTokenRequest
    \/ AutoDetectCall

SpecPF == InitPF /\ [][NextPF]_vars

\* Two destinations.
InitMM ==
    /\ CoreUnused
    /\ StIdle /\ SmIdle /\ PfUnused /\ MmIdle /\ RlUnused /\ CtxIdle /\ SwUnused

NextMM ==
    \/ \E t \in Threads :
        \/ \E d \in Destinations : MmGetTokenCall(t, d)
        \/ MmGetTokenLock(t)
        \/ MmGetTokenCheck(t)
        \/ MmAcquired(t)
        \/ MmFailed(t)
    \/ Tick

SpecMM == InitMM /\ [][NextMM]_vars

\* A rate limiter constructed with any of the configurations.
InitRL ==
    /\ CoreUnused
    /\ StIdle /\ SmIdle /\ PfUnused /\ MmIdle /\ CtxIdle /\ SwUnused
    /\ rlCfg \in RlConfigs
    /\ RlIdle

NextRL ==
    \/ \E key \in RlKeys : CheckRateLimit(key)
    \/ Tick

SpecRL == InitRL /\ [][NextRL]_vars

\* A rate limiter whose callers also use reset and get_remaining.
NextRLK ==
    \/ \E key \in RlKeys : CheckRateLimit(key)
    \/ \E key \in RlKeys : RlReset(key)
    \/ \E key \in RlKeys : RlGetRemaining(key)
    \/ Tick

SpecRLK == InitRL /\ [][NextRLK]_vars

\* Threads calling PluginContext.get_instance() on the class as imported.
InitCTX ==
    /\ CoreUnused
    /\ StIdle /\ SmIdle /\ PfUnused /\ MmIdle /\ RlUnused /\ CtxIdle /\ SwUnused

NextCTX ==
    \/ \E t \in Threads : GetInstanceTest(t)
    \/ \E t \in Threads : GetInstanceLock(t)
    \/ \E t \in Threads : GetInstanceRetest(t)
    \/ \E t \in Threads : GetInstanceNew(t)
    \/ \E t \in Threads : GetInstanceAssign(t)
    \/ \E t \in Threads : GetInstanceFlag(t)
    \/ \E t \in Threads : GetInstanceReturn(t)
    \/ Tick

SpecCTX == InitCTX /\ [][NextCTX]_vars

\* One STOW-RS request, of any of the kinds, handled by handle_rest_api_stow.
InitSW ==
    /\ CoreUnused
    /\ StIdle /\ SmIdle /\ PfUnused /\ MmIdle /\ RlUnused /\ CtxIdle
    /\ stowReq \in StowRequests
    /\ SwIdle

NextSW ==
    \/ StowExtract
    \/ StowGetToken
    \/ StowGetUrl
    \/ StowPrepare
    \/ StowSend
    \/ StowHandlerEnd

SpecSW == InitSW /\ [][NextSW]_vars


\* =========================================================================
\* Properties
\* =========================================================================
\* Thread t's get_token call returns or raises in this step.
Returns(t) == pc[t] # "idle" /\ pc'[t] = "idle"

\* Thread t runs the validity check of get_token in this step.
Checks(t) == pc[t] = "locked" /\ pc'[t] # "locked"

\* Thread t runs the first part of _acquire_token in this step.
EntersAcquire(t) == pc[t] = "acquire" /\ pc'[t] # "acquire"

\* Thread t's get_token call returns the cached token from the cache in this step.
CacheHit(t) ==
    /\ pc'[t] = "idle"
    /\ lastReturn' = TokenResult(GetCachedToken(encCachedToken), "hit")
    /\ acquireCalls' = acquireCalls

\* C1 as stated: whenever get_token returns a token, on either return path,
\* now + refresh_buffer_seconds < expiry of the cached token at that moment.
C1_EveryReturnWithinBuffer ==
    [][\A t \in Threads :
        (Returns(t) /\ lastReturn'.kind = "token")
            => now + config.buffer < tokenExpiry]_vars

\* C1 amended: a token returned on the cache-hit path satisfies
\* now + refresh_buffer_seconds < expiry; the path that returns the token the
\* same call acquired gives no such guarantee.
C1_CacheHitWithinBuffer ==
    [][\A t \in Threads :
        (Returns(t) /\ lastReturn'.kind = "token" /\ lastReturn'.path = "hit")
            => now + config.buffer < tokenExpiry]_vars

C1_Witness ==
    /\ lastReturn.kind = "token"
    /\ lastReturn.path = "hit"
    /\ now + config.buffer + 1 = tokenExpiry

\* C2: when get_token raises, the cached token and the cached expiry are what
\* they were when the call took the lock.
C2_FailureLeavesCache ==
    [][\A t \in Threads :
        (Returns(t) /\ lastReturn'.kind = "error")
            => <<encCachedToken', tokenExpiry'>> = cacheBefore]_vars

\* C3: at most one thread is inside the acquisition (provider calls, retries
\* and backoff sleeps included) at any time.
C3_OneAcquisitionInFlight ==
    Cardinality({t \in Threads : Acquiring(t)}) <= 1

C3_Witness ==
    \E t, u \in Threads :
        /\ t # u
        /\ pc[t] = "sleep"
        /\ pc[u] = "wait"

\* C4 as stated: a caller that waited behind an acquisition that succeeded
\* returns that token from the cache, with no provider call.
C4_WaiterReusesToken ==
    [][\A t \in Threads :
        (Checks(t) /\ waitedFor[t] # NoToken)
            => /\ CacheHit(t)
               /\ lastReturn'.token = waitedFor[t]]_vars

\* C4 amended: a caller that waited behind an acquisition that succeeded
\* returns that token from the cache, with no provider call, if the cache
\* still holds that token and now + buffer < expiry when the caller checks.
C4_WaiterReusesValidToken ==
    [][\A t \in Threads :
        (/\ Checks(t)
         /\ waitedFor[t] # NoToken
         /\ GetCachedToken(encCachedToken) = waitedFor[t]
         /\ now + config.buffer < tokenExpiry)
            => /\ CacheHit(t)
               /\ lastReturn'.token = waitedFor[t]]_vars

C4_Witness ==
    \E t \in Threads :
        /\ pc[t] = "idle"
        /\ servedFromWait[t]
        /\ lastReturn.path = "hit"
        /\ acquireCalls = 1

\* The cache holds a token that passed validate_token.
CachedAndValidated ==
    /\ encCachedToken # NoCipher
    /\ GetCachedToken(encCachedToken) \notin rejectedTokens

\* C5 as stated: with a token cached, a call at expiry - buffer - 1 returns it
\* with no provider call, and a call at expiry - buffer + 1 goes to the provider.
C5_BoundaryInvokesProvider ==
    [][\A t \in Threads :
        /\ (Checks(t) /\ CachedAndValidated
                /\ now = tokenExpiry - config.buffer - 1) => CacheHit(t)
        /\ (Checks(t) /\ CachedAndValidated
                /\ now = tokenExpiry - config.buffer + 1) => pc'[t] = "acquire"
        /\ (EntersAcquire(t) /\ CachedAndValidated
                /\ now = tokenExpiry - config.buffer + 1) => pc'[t] = "attempt"]_vars

\* C5 amended: with a token cached, a call while now + buffer < expiry (so at
\* expiry - buffer - 1) returns it with no provider call; a call from
\* now + buffer >= expiry on (so at expiry - buffer + 1) runs the acquisition,
\* which goes to the provider unless the open circuit breaker rejects the call.
C5_BoundaryTriggersAcquisition ==
    [][\A t \in Threads :
        /\ (Checks(t) /\ encCachedToken # NoCipher
                /\ now + config.buffer < tokenExpiry) => CacheHit(t)
        /\ (Checks(t) /\ encCachedToken # NoCipher
                /\ now + config.buffer >= tokenExpiry) => pc'[t] = "acquire"
        /\ (EntersAcquire(t) /\ encCachedToken # NoCipher
                /\ now + config.buffer >= tokenExpiry)
            => \/ pc'[t] = "attempt"
               \/ /\ config.cb_enabled
                  /\ tmCb.state = "OPEN"
                  /\ lastReturn' = ErrorResult("CircuitBreakerError")
                  /\ acquireCalls' = acquireCalls]_vars

C5_Witness ==
    /\ lastReturn.kind = "token"
    /\ lastReturn.path = "hit"
    /\ lock = NoThread
    /\ acquireCalls = 1
    /\ calls >= 2
    /\ now = tokenExpiry - config.buffer - 1

\* C6 as stated: every error that leaves get_token is a TokenAcquisitionError
\* or a NetworkError.
C6_OnlyTypedErrors ==
    lastReturn.kind = "error"
        => lastReturn.err \in {"TokenAcquisitionError", "NetworkError"}

\* C6 amended: every error that leaves get_token is a TokenAcquisitionError or
\* a NetworkError, or the CircuitBreakerError of the manager's open breaker
\* rejecting the acquisition before the provider is called.
C6_TypedOrBreakerError ==
    [][\A t \in Threads :
        (Returns(t) /\ lastReturn'.kind = "error")
            => \/ lastReturn'.err \in {"TokenAcquisitionError", "NetworkError"}
               \/ /\ lastReturn'.err = "CircuitBreakerError"
                  /\ config.cb_enabled
                  /\ tmCb.state = "OPEN"
                  /\ pc[t] = "acquire"
                  /\ acquireCalls' = acquireCalls]_vars

C6_Witness ==
    /\ lastReturn.kind = "error"
    /\ lastReturn.err = "CircuitBreakerError"

\* C7: get_token never returns a token for which validate_token returned False.
C7_NeverReturnsRejectedToken ==
    lastReturn.kind = "token" => lastReturn.token \notin rejectedTokens

\* C8: from CLOSED the breaker stays CLOSED while fewer than failure_threshold
\* consecutive qualifying failures have occurred, and the failure that makes
\* them failure_threshold opens it with failure_count = failure_threshold.
C8_OpensAtThreshold ==
    [][cb.state = "CLOSED"
        => IF consec' >= cbCfg.failure_threshold
           THEN /\ cb'.state = "OPEN"
                /\ cb'.failure_count = cbCfg.failure_threshold
                /\ consec' = cbCfg.failure_threshold
           ELSE cb'.state = "CLOSED"]_vars

C8_Witness ==
    /\ cbCfg.failure_threshold = 2
    /\ cb.state = "OPEN"
    /\ cb.failure_count = 2
    /\ consec = 2
    /\ cbLast.out \in CbErrors

\* A thread starts CircuitBreaker.call in this step.
CallStarts == cb'.total_calls = cb.total_calls + 1

\* C9: a call made while the breaker is OPEN and less than timeout seconds
\* after the last failure is rejected with CircuitBreakerError, the wrapped
\* function does not run, rejected_count goes up by one and state,
\* failure_count and the last-failure time stay as they are.
C9_OpenRejects ==
    [][(/\ CallStarts
        /\ cb.state = "OPEN"
        /\ cb.last_failure_time # NoTime
        /\ now - cb.last_failure_time < cbCfg.timeout)
        => /\ cbLast'.out = "CircuitBreakerError"
           /\ cbPc' = cbPc
           /\ cb'.rejected_count = cb.rejected_count + 1
           /\ cb'.state = cb.state
           /\ cb'.failure_count = cb.failure_count
           /\ cb'.last_failure_time = cb.last_failure_time]_vars

C9_Witness ==
    /\ cb.state = "OPEN"
    /\ cb.rejected_count > 0
    /\ cbLast.out = "CircuitBreakerError"
    /\ now - cb.last_failure_time < cbCfg.timeout

\* C10: the call made once timeout seconds have passed since the last failure
\* moves the breaker from OPEN to HALF_OPEN and runs the wrapped function, and
\* when that function returns the breaker is CLOSED with failure_count 0.
C10_ProbeSuccessCloses ==
    [][/\ (/\ CallStarts
           /\ cb.state = "OPEN"
           /\ now - cb.last_failure_time >= cbCfg.timeout)
          => /\ cb'.state = "HALF_OPEN"
             /\ \E t \in Threads : cbPc[t] = "idle" /\ cbPc'[t] = "exec" /\ probe'[t]
       /\ \A t \in Threads :
            (probe[t] /\ cbPc[t] = "exec" /\ cbLast' = [thread |-> t, out |-> "ok"]
                /\ cbPc'[t] = "idle")
                => /\ cb'.state = "CLOSED"
                   /\ cb'.failure_count = 0]_vars

\* The wrapped function of thread t's call raises in this step.
FuncRaises(t) ==
    /\ cbPc[t] = "exec"
    /\ cbPc'[t] = "idle"
    /\ cbLast'.thread = t
    /\ cbLast'.out \in CbErrors

\* The wrapped function of thread t's call returns in this step.
FuncReturns(t) ==
    /\ cbPc[t] = "exec"
    /\ cbPc'[t] = "idle"
    /\ cbLast' = [thread |-> t, out |-> "ok"]

\* The exception that leaves call in this step counts as a failure.
Qualifies ==
    cbCfg.exception_filter = "all" \/ cbLast'.out = "NetworkError"

\* C11: a qualifying failure that arrives while the breaker is HALF_OPEN moves
\* it to OPEN and sets the last-failure time to now, whatever calls overlapped.
C11_HalfOpenFailureReopens ==
    [][\A t \in Threads :
        (cb.state = "HALF_OPEN" /\ FuncRaises(t) /\ Qualifies)
            => /\ cb'.state = "OPEN"
               /\ cb'.last_failure_time = now]_vars

\* reset() runs in this step.
ResetStep ==
    /\ cbPc' = cbPc
    /\ cb' = ResetBreaker(cb)

\* C12 as stated: every success zeroes failure_count, nothing but a success
\* takes it from non-zero to zero, and it is never negative.
C12_ZeroedExactlyOnSuccess ==
    [][/\ \A t \in Threads : FuncReturns(t) => cb'.failure_count = 0
       /\ (cb.failure_count # 0 /\ cb'.failure_count = 0)
            => \E t \in Threads : FuncReturns(t)
       /\ cb'.failure_count >= 0]_vars

\* C12 amended: every success zeroes failure_count, nothing but a success or
\* a manual reset() takes it from non-zero to zero, and it is never negative.
C12_ZeroedOnSuccessOrReset ==
    [][/\ \A t \in Threads : FuncReturns(t) => cb'.failure_count = 0
       /\ (cb.failure_count # 0 /\ cb'.failure_count = 0)
            => (ResetStep \/ \E t \in Threads : FuncReturns(t))
       /\ cb'.failure_count >= 0]_vars

C12_Witness ==
    /\ cbLast.out = "ok"
    /\ cb.failure_count = 0
    /\ cb.last_failure_time # NoTime
    /\ cb.state = "CLOSED"
    /\ cb.metrics_failure_count = 1
    /\ cb.success_count = 1

\* C13: when the wrapped function raises an exception the filter does not
\* count, call raises that exception and the step leaves state, failure_count
\* and the last-failure time as they are.
C13_FilteredFailureNoEffect ==
    [][\A t \in Threads :
        (/\ FuncRaises(t)
         /\ cbCfg.exception_filter = "custom"
         /\ cbLast'.out = "ValidationError")
            => /\ cb'.state = cb.state
               /\ cb'.failure_count = cb.failure_count
               /\ cb'.last_failure_time = cb.last_failure_time]_vars

C13_Witness ==
    /\ cbCfg.exception_filter = "custom"
    /\ cbLast.out = "ValidationError"
    /\ cb.failure_count = 1
    /\ cb.state = "CLOSED"
    /\ cb.total_calls = 2


\* C14: a thread holds the breaker's lock exactly while it is inside a
\* `with self._lock` block of call, never while its wrapped function runs; and
\* while a thread is inside its wrapped function and nobody is inside such a
\* block, any other thread can read the state and can start its own call.
C14_LockNotHeldAcrossCall ==
    /\ \A t \in Threads : (cbLock = t) <=> (cbPc[t] \in LockedSections)
    /\ \A t, u \in Threads :
        (/\ cbPc[t] = "exec"
         /\ cbPc[u] = "idle"
         /\ \A v \in Threads : cbPc[v] \notin LockedSections)
            => /\ ENABLED ReadState(u)
               /\ (cb.total_calls < MaxLockedCalls) => ENABLED LockedCallEnter(u)

C14_Witness ==
    \E t, u \in Threads :
        /\ t # u
        /\ cbPc[t] = "exec"
        /\ cbLast = [thread |-> u, out |-> "CircuitBreakerError"]
        /\ cbSeen = [thread |-> u, state |-> "OPEN", failure_count |-> 1]
        /\ cb.total_calls = 3
        /\ now = 0


\* Counts over the log of execute.
Invocations == Cardinality({i \in DOMAIN rcLog : rcLog[i].ev = "invoke"})
Sleeps == Cardinality({i \in DOMAIN rcLog : rcLog[i].ev = "sleep"})
OnRetries == Cardinality({i \in DOMAIN rcLog : rcLog[i].ev = "on_retry"})

\* The invocation logged at i raised an exception the configuration retries.
FailedRetryable(i) ==
    /\ rcLog[i].ev = "invoke"
    /\ rcLog[i].exc # "none"
    /\ (rcCfg.should_retry = "all" \/ rcLog[i].exc = "RetryableError")

\* C15: when execute ends and every invocation failed with a retryable
\* error, the operation was invoked exactly max_attempts times and execute
\* raised RetryExhaustedError whose cause is the exception of the last one.
C15_ExhaustedAfterMaxAttempts ==
    (/\ rcPc = "done"
     /\ \A i \in DOMAIN rcLog : rcLog[i].ev = "invoke" => FailedRetryable(i))
        => /\ Invocations = rcCfg.max_attempts
           /\ rcLog[Len(rcLog)].ev = "invoke"
           /\ rcOut = [kind |-> "error", err |-> "RetryExhaustedError",
                       cause |-> rcLog[Len(rcLog)].exc]

C15_Witness ==
    /\ rcPc = "done"
    /\ rcCfg.max_attempts = 3
    /\ rcCfg.should_retry = "all"
    /\ Invocations = 3
    /\ rcLog[1].exc = "RetryableError"
    /\ rcOut.err = "RetryExhaustedError"
    /\ rcOut.cause = "NonRetryableError"

\* C16: an invocation that fails with an error should_retry rejects is the
\* last event of execute: it was invocation number attempt + 1, no callback,
\* delay or invocation follows, and execute raises that exception itself.
C16_NonRetryableNotRetried ==
    \A i \in DOMAIN rcLog :
        (/\ rcLog[i].ev = "invoke"
         /\ rcCfg.should_retry = "custom"
         /\ rcLog[i].exc = "NonRetryableError")
            => /\ i = Len(rcLog)
               /\ rcPc = "done"
               /\ Invocations = rcLog[i].att + 1
               /\ rcOut = [kind |-> "error", err |-> "NonRetryableError",
                           cause |-> "none"]

C16_Witness ==
    /\ rcPc = "done"
    /\ rcCfg.should_retry = "custom"
    /\ rcCfg.max_attempts = 3
    /\ Invocations = 2
    /\ rcOut.err = "NonRetryableError"

\* C17: an invocation that returns is the last event of execute: it was
\* invocation number k = attempt + 1, k - 1 delays came before it, nothing
\* follows it, and execute returns its result.
C17_StopsAtFirstSuccess ==
    \A i \in DOMAIN rcLog :
        (rcLog[i].ev = "invoke" /\ rcLog[i].exc = "none")
            => /\ i = Len(rcLog)
               /\ rcPc = "done"
               /\ rcOut.kind = "value"
               /\ Invocations = rcLog[i].att + 1
               /\ Invocations <= rcCfg.max_attempts
               /\ Sleeps = rcLog[i].att

C17_Witness ==
    /\ rcPc = "done"
    /\ rcOut.kind = "value"
    /\ Invocations = 3
    /\ Sleeps = 2

\* C18: a failed invocation `a` that is not the last event is followed by
\* on_retry(a, error) if a callback is configured, then by the sleep of
\* get_delay(a), then by invocation a + 1; and when all attempts have failed
\* there were max_attempts - 1 callbacks and max_attempts - 1 sleeps, none of
\* them after the last invocation.
C18_CallbackThenDelayThenAttempt ==
    /\ \A i \in DOMAIN rcLog :
        (rcLog[i].ev = "invoke" /\ i < Len(rcLog))
            => LET a == rcLog[i].att
                   j == IF rcCfg.on_retry THEN i + 2 ELSE i + 1
               IN  /\ rcCfg.on_retry => rcLog[i + 1] = OnRetryCalled(a, rcLog[i].exc)
                   /\ j <= Len(rcLog)
                   /\ rcLog[j] = Slept(a, GetDelay(rcCfg.strategy, a))
                   /\ \/ j = Len(rcLog) /\ rcPc = "call"
                      \/ j < Len(rcLog) /\ rcLog[j + 1].ev = "invoke"
                                         /\ rcLog[j + 1].att = a + 1
    /\ (rcPc = "done" /\ rcOut.err = "RetryExhaustedError")
            => /\ Sleeps = rcCfg.max_attempts - 1
               /\ OnRetries = IF rcCfg.on_retry THEN rcCfg.max_attempts - 1 ELSE 0
               /\ rcLog[Len(rcLog)].ev = "invoke"

C18_Witness ==
    /\ rcPc = "done"
    /\ rcOut.err = "RetryExhaustedError"
    /\ rcCfg.on_retry
    /\ rcCfg.max_attempts = 3
    /\ rcCfg.strategy.type = "exponential"
    /\ OnRetries = 2
    /\ Sleeps = 2
    /\ rcLog[3].delay = 1
    /\ rcLog[6].delay = 2


\* An acquisition attempt of thread t fails in this step (the provider raises
\* or validate_token returns False); lastExc' is the exception.
AttemptFails(t) ==
    /\ pc[t] \in {"attempt", "validate"}
    /\ lastExc' # "none"

\* Timeout, connection failure, NetworkError.
NetworkClass == {"Timeout", "ConnectionError", "NetworkError"}

\* C19: without a RetryConfig the provider is invoked in attempts 0, 1 and 2
\* of an acquisition at most; a failed attempt is followed by another one
\* exactly when the error is network-class and it was not the third attempt;
\* a TokenAcquisitionError ends the acquisition at once, as itself; and a
\* network-class failure of the third attempt ends it with TokenAcquisitionError.
C19_LegacyRetriesNetworkOnly ==
    [][\A t \in Threads :
        ~config.retry.enabled =>
            /\ (pc[t] = "attempt" /\ acquireCalls' = acquireCalls + 1)
                    => attempt[t] < 3
            /\ AttemptFails(t) =>
                /\ (pc'[t] = "sleep") <=> (lastExc' \in NetworkClass /\ attempt[t] < 2)
                /\ (pc'[t] # "sleep") =>
                        /\ pc'[t] = "idle"
                        /\ lastReturn'.kind = "error"
                /\ (lastExc' = "TokenAcquisitionError")
                        => lastReturn' = ErrorResult("TokenAcquisitionError")
                /\ (lastExc' \in NetworkClass /\ attempt[t] = 2)
                        => lastReturn' = ErrorResult("TokenAcquisitionError")]_vars

C19_Witness ==
    /\ ~config.retry.enabled
    /\ lastExc \in NetworkClass
    /\ lastReturn = ErrorResult("TokenAcquisitionError")
    /\ acquireCalls = 3
    /\ calls = 1
    /\ now = 3

C21_BreakerOpensAfterThreshold ==
    [][\A t \in Threads :
        config.cb_enabled =>
            /\ (/\ Returns(t)
                /\ lastReturn'.kind = "error"
                /\ lastReturn'.err # "CircuitBreakerError")
                    => /\ tmConsec' = tmConsec + 1
                       /\ (tmConsec' >= config.threshold) => tmCb'.state = "OPEN"
            /\ (/\ EntersAcquire(t)
                /\ tmCb.state = "OPEN"
                /\ now - tmCb.last_failure_time < config.timeout)
                    => /\ pc'[t] = "idle"
                       /\ lastReturn' = ErrorResult("CircuitBreakerError")
                       /\ acquireCalls' = acquireCalls
                       /\ tmCb'.state = "OPEN"]_vars

C21_Witness ==
    /\ config.cb_enabled
    /\ config.threshold = 2
    /\ tmConsec = 2
    /\ tmCb.state = "OPEN"
    /\ lastReturn = ErrorResult("CircuitBreakerError")
    /\ acquireCalls = 2
    /\ calls = 3
    /\ \A t \in Threads : pc[t] = "idle"


\* ------------------------------------------------------------------- C22
\* C22: the cached token and its expiry change as one unit, so that the
\* validity check of the status endpoint, which runs without the manager's
\* lock, never pairs a cached token with the expiry of another acquisition
\* or with no expiry at all.
C22_TokenAndExpiryOneUnit ==
    (serverInfo.built /\ serverInfo.token # NoToken)
        => serverInfo.expiry_src = serverInfo.token

\* ------------------------------------------------------------------- C23
\* The cache holds a token with its own expiry that validate_token did not
\* reject, and the lifetime the provider gave it is not greater than the
\* refresh buffer.
ShortLivedCached ==
    /\ encCachedToken # NoCipher
    /\ expirySrc.access_token = GetCachedToken(encCachedToken)
    /\ expirySrc.expires_in <= config.buffer
    /\ GetCachedToken(encCachedToken) \notin rejectedTokens

\* C23 as stated: the call that acquired a token returns it; while a token
\* whose lifetime is not greater than the buffer is cached, the validity check
\* never serves it and every get_token call goes on to a provider call.
C23_ShortLivedAlwaysReacquired ==
    [][\A t \in Threads :
        /\ (pc[t] = "validate" /\ Returns(t) /\ lastReturn'.kind = "token")
                => lastReturn' = TokenResult(oauthTok[t].access_token, "acquired")
        /\ (Checks(t) /\ ShortLivedCached) => pc'[t] = "acquire"
        /\ (EntersAcquire(t) /\ ShortLivedCached) => pc'[t] = "attempt"
        /\ (pc[t] = "attempt" /\ pc'[t] # "attempt") => acquireCalls' = acquireCalls + 1]_vars

\* C23: the call that acquired a token returns it; while a token whose
\* lifetime is not greater than the buffer is cached, the validity check never
\* serves it, and every get_token call goes on to a provider call unless the
\* manager's breaker is OPEN and rejects it with CircuitBreakerError.
C23_ShortLivedNeverServedFromCache ==
    [][\A t \in Threads :
        /\ (pc[t] = "validate" /\ Returns(t) /\ lastReturn'.kind = "token")
                => lastReturn' = TokenResult(oauthTok[t].access_token, "acquired")
        /\ (Checks(t) /\ ShortLivedCached) => pc'[t] = "acquire"
        /\ (EntersAcquire(t) /\ ShortLivedCached)
                => \/ pc'[t] = "attempt"
                   \/ /\ config.cb_enabled
                      /\ tmCb.state = "OPEN"
                      /\ pc'[t] = "idle"
                      /\ lastReturn' = ErrorResult("CircuitBreakerError")
        /\ (pc[t] = "attempt" /\ pc'[t] # "attempt") => acquireCalls' = acquireCalls + 1]_vars

\* The first call acquired token 1 with a lifetime equal to the buffer and
\* returned it; the second call found it cached and is about to call the provider.
C23_Witness ==
    /\ ShortLivedCached
    /\ GetCachedToken(encCachedToken) = 1
    /\ lastReturn = TokenResult(1, "acquired")
    /\ calls = 2 /\ acquireCalls = 1
    /\ \E t \in Threads : pc[t] = "attempt"

\* ------------------------------------------------------------------- C24
\* C24: once the manager is constructed, the client secret is held by the
\* manager and by its provider only as the ciphertext of the manager's
\* SecretsManager, nowhere in plaintext.
C24_SecretOnlyAsCiphertext ==
    mgr.exists =>
        /\ mgr.encrypted_client_secret = EncryptSecret(TmVaultKey, pfCfg.ClientSecret)
        /\ mgr.config_secret # pfCfg.ClientSecret
        /\ mgr.provider_secret # pfCfg.ClientSecret

\* ------------------------------------------------------------------- C25
\* C25: decrypt_secret of the instance that encrypted a non-empty string
\* returns that string, and decrypt_secret of any other instance raises a
\* decryption error instead of returning a value.
C25_RoundTripOwnInstanceOnly ==
    \A v \in 1..MaxVaults :
        (smSecret # <<>> /\ smOut[v].done) =>
            IF VaultKey(v) = smCipher.key
            THEN smOut[v].raised = "none" /\ smOut[v].value = smSecret
            ELSE smOut[v].raised = "InvalidToken"

\* Instance 1 encrypted a string of a two-byte and a three-byte character;
\* instance 1 decrypted it and instance 2 failed to.
C25_Witness ==
    /\ smSecret = <<233, 8364>>
    /\ smCipher.key = VaultKey(1)
    /\ smOut[1].done /\ smOut[1].value = smSecret
    /\ smOut[2].done /\ smOut[2].raised = "InvalidToken"

\* ------------------------------------------------------------------- C26
\* The configured token endpoint has the fragment in it.
Has(fragment) ==
    \E i \in DOMAIN pfCfg.TokenEndpoint : pfCfg.TokenEndpoint[i] = fragment

\* An https URL with a host.
WellFormed ==
    /\ Len(pfCfg.TokenEndpoint) >= 2
    /\ pfCfg.TokenEndpoint[1] = "https://"
    /\ \A i \in 2..Len(pfCfg.TokenEndpoint) : pfCfg.TokenEndpoint[i] # "https://"

\* C26 as stated: auto_detect returns "azure" for every endpoint with the
\* Microsoft login domain in it, "google" for every endpoint with the Google
\* OAuth domain in it, and "generic" for every other well-formed endpoint.
C26_AutoDetectThreeWay ==
    (detected # "none" /\ WellFormed) =>
        /\ Has("login.microsoftonline.com") => detected = "azure"
        /\ Has("oauth2.googleapis.com") => detected = "google"
        /\ (~Has("login.microsoftonline.com") /\ ~Has("oauth2.googleapis.com"))
                => detected = "generic"

\* C26: auto_detect returns "azure" for every endpoint with the Microsoft
\* login domain in it; otherwise "google" for one with the Google OAuth domain;
\* otherwise "aws" for one with "aws" in it in any letter case; otherwise
\* "keycloak" for one with /auth/realms/ in it; otherwise "generic".
C26_AutoDetectInOrder ==
    detected # "none" =>
        detected = IF Has("login.microsoftonline.com") THEN "azure"
                   ELSE IF Has("oauth2.googleapis.com") THEN "google"
                   ELSE IF Has("aws") \/ Has("AWS") THEN "aws"
                   ELSE IF Has("/auth/realms/") THEN "keycloak"
                   ELSE "generic"

\* auto_detect gave "azure" for an endpoint that has both domains in it.
C26_Witness ==
    /\ pfCfg.TokenEndpoint = <<"https://", "login.microsoftonline.com", "oauth2.googleapis.com">>
    /\ detected = "azure"

\* ------------------------------------------------------------------- C27
\* C27: with an explicit provider type that is not registered, construction
\* raises ValueError: no manager exists, no token request is or can be sent,
\* and the constructor is not called again.
C27_UnknownTypeFailsFast ==
    (pfCfg.ProviderType \in {"keycloak", "okta"} /\ pfPc # "configured") =>
        /\ pfOut = "ValueError"
        /\ pfPc = "failed"
        /\ ~mgr.exists
        /\ requestsSent = 0
        /\ ~ENABLED ProviderTokenRequest
        /\ ~ENABLED Construct

C27_Witness ==
    /\ pfCfg.ProviderType = "okta"
    /\ pfOut = "ValueError"
    /\ pfPc = "failed"

\* ------------------------------------------------------------------- C28
\* The destination of the manager thread t's get_token step is on.
ActiveDest(t) == IF mmPc[t].dest # NoDest THEN mmPc[t].dest ELSE mmPc'[t].dest

\* C28: a step of a get_token call on one manager leaves the cached token,
\* expiry, lock and breaker of every other manager as they are, and a caller
\* waiting for the lock of its manager can take it whenever that lock is free,
\* whoever holds the lock of another manager.
C28_ManagersIndependent ==
    [][\A t \in Threads :
        /\ \A d \in Destinations :
              (mmPc'[t] # mmPc[t] /\ d # ActiveDest(t)) => mgrs'[d] = mgrs[d]
        /\ (mmPc[t].pc = "wait" /\ mgrs[mmPc[t].dest].lock = NoThread)
              => ENABLED MmGetTokenLock(t)]_vars

\* Two acquisitions, one for each destination, are in flight at the same time.
C28_Witness ==
    /\ mmPc[1] = [dest |-> "pacs-a", pc |-> "attempt"]
    /\ mmPc[2] = [dest |-> "pacs-b", pc |-> "attempt"]
    /\ mgrs["pacs-a"].lock = 1
    /\ mgrs["pacs-b"].lock = 2

\* ------------------------------------------------------------------- C29
\* Number of accepted requests with a timestamp from lo to hi.
AcceptedIn(accepted, lo, hi) ==
    Cardinality({i \in DOMAIN accepted : lo <= accepted[i] /\ accepted[i] <= hi})

\* check_rate_limit(key) runs in this step.
RlChecks(key) == rlCalls' = rlCalls + 1 /\ rlLast'.key = key

C30_AcceptedAgainAfterWindow ==
    [][\A key \in RlKeys :
        RlChecks(key) =>
            /\ (/\ rlRequests[key] # <<>>
                /\ now - Head(rlRequests[key]) > rlCfg.window_seconds)
                    => rlLast'.out = "accepted"
            /\ rlLast'.out = "RateLimitExceeded"
                    => /\ rlAccepted' = rlAccepted
                       /\ Len(rlRequests'[key]) <= Len(rlRequests[key])
                       /\ \A i \in DOMAIN rlRequests'[key] :
                            \E j \in DOMAIN rlAccepted[key] :
                                rlAccepted[key][j] = rlRequests'[key][i]]_vars

\* One request per second allowed: accepted at 0, rejected once within the
\* window, accepted again at 2.
C30_Witness ==
    /\ rlCfg = [max_requests |-> 1, window_seconds |-> 1]
    /\ now = 2
    /\ rlCalls = 3
    /\ rlAccepted["10.0.0.1"] = <<0, 2>>
    /\ rlAccepted["10.0.0.2"] = <<>>
    /\ rlLast = [key |-> "10.0.0.1", out |-> "accepted"]

\* -------------------------------------------------------------------------
\* C31: check_rate_limit, get_remaining and reset for one key change neither
\* the recorded requests of another key nor the outcome that a
\* check_rate_limit for that other key would have.
\* -------------------------------------------------------------------------
WouldRaise(requests) ==
    CheckOutcome(Prune(requests, now - rlCfg.window_seconds),
                 rlCfg.max_requests, now).raised

C31_OtherKeysUntouched ==
    [][\A key \in RlKeys :
         (CheckRateLimit(key) \/ RlReset(key) \/ RlGetRemaining(key)) =>
            \A other \in RlKeys \ {key} :
               /\ rlRequests'[other] = rlRequests[other]
               /\ WouldRaise(rlRequests'[other]) = WouldRaise(rlRequests[other])]_vars

\* Each of the three operations has acted on one key while the other key
\* holds recorded requests: here a reset.
C31_Witness ==
    /\ rlLast = [key |-> "10.0.0.2", out |-> "reset"]
    /\ rlRequests["10.0.0.1"] # <<>>
    /\ rlRequests["10.0.0.2"] = <<>>
    /\ rlAccepted["10.0.0.2"] # <<>>

\* -------------------------------------------------------------------------
\* C32: threads calling get_instance() concurrently on an uninitialised
\* singleton all receive the same instance, an initialised one, and
\* _initialize runs exactly once.
\* -------------------------------------------------------------------------
C32_OneInstanceInitialisedOnce ==
    /\ Len(ctxObjects) <= 1
    /\ \A t \in Threads :
         ctxThr[t].path # "none" /\ ctxThr[t].pc = "idle" =>
            /\ ctxThr[t].ret = 1
            /\ Len(ctxObjects) = 1
            /\ ctxObjects[1].initialized
            /\ \A u \in Threads :
                 ctxThr[u].pc = "idle" /\ ctxThr[u].path # "none" =>
                    ctxThr[u].ret = ctxThr[t].ret

\* Two calls that both found no instance at the first test have returned: one
\* created the instance, the other waited for the lock and found it there.
C32_Witness ==
    /\ \E t \in Threads : ctxThr[t].pc = "idle" /\ ctxThr[t].path = "created"
                          /\ ctxThr[t].calls = 1 /\ ctxThr[t].ret = 1
    /\ \E u \in Threads : ctxThr[u].pc = "idle" /\ ctxThr[u].path = "found"
                          /\ ctxThr[u].calls = 1 /\ ctxThr[u].ret = 1
    /\ Len(ctxObjects) = 1

\* -------------------------------------------------------------------------
\* C33: when _process_stow_request ends, on any path, it has written exactly
\* one answer to the Orthanc output.
\* -------------------------------------------------------------------------
C33_ExactlyOneAnswer ==
    stow.pc = "processed" => Len(answers) = 1

\* -------------------------------------------------------------------------
\* C34: in every reachable state of a breaker, with calls of several threads
\* overlapping, an OPEN breaker has failure_count >= failure_threshold.
\* -------------------------------------------------------------------------
C34_OpenImpliesThresholdReached ==
    cb.state = "OPEN" => cb.failure_count >= cbCfg.failure_threshold

\* -------------------------------------------------------------------------
\* C35: while the breaker is HALF_OPEN and the recovery probe's wrapped
\* function is running, a call arriving from another thread does not start
\* the wrapped function as well.
\* -------------------------------------------------------------------------
C35_OneProbeAtATime ==
    [][\A t \in Threads :
         (/\ cb.state = "HALF_OPEN"
          /\ \E u \in Threads \ {t} : cbPc[u] = "exec" /\ probe[u]
          /\ cbPc[t] = "idle"
          /\ CallStarts)
            => cbPc'[t] # "exec"]_vars

\* -------------------------------------------------------------------------
\* C36: with a valid cached token, get_token returns it without calling the
\* breaker: the call does not fail, whatever the breaker's state, and no
\* field of the breaker changes.
\* -------------------------------------------------------------------------
C36_CacheHitBypassesBreaker ==
    [][\A t \in Threads :
         (/\ Checks(t)
          /\ encCachedToken # NoCipher
          /\ tokenExpiry # NoTime
          /\ now + config.buffer < tokenExpiry)
            => /\ CacheHit(t)
               /\ lastReturn'.kind = "token"
               /\ tmCb' = tmCb]_vars

\* A cache hit while the breaker is OPEN: the token that the provider's
\* validation rejected stayed in the cache, and the failure opened the
\* breaker.
C36_Witness ==
    /\ lastReturn.kind = "token"
    /\ lastReturn.path = "hit"
    /\ tmCb.state = "OPEN"
    /\ config.cb_enabled
    /\ \A t \in Threads : pc[t] = "idle"

\* -------------------------------------------------------------------------
\* C37: get_token releases the manager's lock on every exit path, so while
\* provider calls and sleeps return, every caller that has entered get_token
\* obtains the lock and returns or raises.
\* -------------------------------------------------------------------------
\* A sleep that would end after the last instant of the clock.
PastHorizon ==
    \E u \in Threads :
        pc[u] = "sleep" /\ now + RetryDelay(config, attempt[u], retryDelay[u]) > MaxTime

C37_EveryCallerLeaves ==
    \A t \in Threads : (pc[t] # "idle") ~> (pc[t] = "idle" \/ PastHorizon)

\* A caller holds the lock after the call before it left get_token by an
\* exception, and another caller is waiting for it.
C37_Witness ==
    /\ lastReturn.kind = "error"
    /\ \E t \in Threads :
         /\ lock = t
         /\ pc[t] = "locked"
         /\ \E u \in Threads \ {t} : pc[u] = "wait"

\* -------------------------------------------------------------------------
\* C38: a get_token call that misses the cache makes one CircuitBreaker.call:
\* the breaker counts a call only when _acquire_token starts, and its failure
\* counter changes only when get_token is left, by one increment or by a
\* reset to zero, however many provider attempts were made in between.
\* -------------------------------------------------------------------------
C38_OneBreakerCallPerMiss ==
    [][/\ \A t \in Threads :
            EntersAcquire(t) /\ config.cb_enabled =>
                tmCb'.total_calls = tmCb.total_calls + 1
       /\ tmCb'.total_calls # tmCb.total_calls =>
            \E t \in Threads : EntersAcquire(t)
       /\ tmCb'.failure_count # tmCb.failure_count =>
            /\ \E t \in Threads : Returns(t)
            /\ \/ tmCb'.failure_count = tmCb.failure_count + 1
               \/ tmCb'.failure_count = 0]_vars

\* One call made two provider attempts and failed: one breaker call, one
\* counted failure.
C38_Witness ==
    /\ calls = 1
    /\ acquireCalls = 2
    /\ lastReturn.kind = "error"
    /\ tmCb.total_calls = 1
    /\ tmCb.failure_count = 1

\* -------------------------------------------------------------------------
\* C39: every provider type auto_detect returns is one that create accepts:
\* constructing a manager whose ProviderType is "auto" (or omitted, which
\* reads as "auto") succeeds for every token endpoint.
\* -------------------------------------------------------------------------
C39_DetectedTypeAlwaysAccepted ==
    (pfCfg.ProviderType = "auto" /\ pfPc # "configured") =>
        /\ pfOut = "ok"
        /\ mgr.exists
        /\ Registered(mgr.provider_type)

\* -------------------------------------------------------------------------
\* C40: for every max_attempts, when execute has returned or raised, the
\* operation was invoked at least once and at most max_attempts times, and a
\* RetryExhaustedError wraps an exception that the operation raised.
\* -------------------------------------------------------------------------
C40_InvokedOnceToMaxAttempts ==
    rcPc = "done" =>
        /\ Invocations >= 1
        /\ Invocations <= rcCfg.max_attempts
        /\ rcOut.err = "RetryExhaustedError" =>
              \E i \in DOMAIN rcLog :
                  rcLog[i].ev = "invoke" /\ rcLog[i].exc = rcOut.cause

====
